---- MODULE Spec2Model ----
(***************************************************************************)
(* StixBuilder of app/files/scripts/stix2/misp2stix2.py: the translation   *)
(* of MISP events into STIX2 objects, one step per record of an event.     *)
(* An identifier "<type>--<uuid>" is the pair <<type, uuid>>; uuids are     *)
(* small integers.                                                          *)
(***************************************************************************)
EXTENDS Integers, Sequences, FiniteSets, TLC

\* ------------------------------------------------------------------ bounds
MaxEvents == 2
\* attribute and event-level galaxy records of one run
MaxRecords == 3
\* object records of one run
MaxObjects == 3
\* attributes of the object handed to one builder call
MaxAttributes == 3
\* builder calls of one run
MaxCalls == 2

\* ------------------------------------------------------------ input values
NoId == <<"none", 0>>
NoUuid == NoId[2]
\* the k-th distinct organisation of a run has uuid 40 + k
OrgUuid(k) == 40 + k
EventUuid(n) == 50 + n
AttributeUuid(n) == n
\* uuid.uuid4(): the n-th random uuid of a run
Uuid4(n) == 100 + n

\* Galaxy records: type (family), uuid of the galaxy, collection_uuid of
\* GalaxyCluster[0]
GalaxyUuid(type) ==
    CASE type = "malware" -> 31
      [] type = "tool" -> 32
      [] type = "branded-vulnerability" -> 33
      [] OTHER -> 34
\* value and aliases: GalaxyCluster[0]['value'] and ['meta']['aliases']
Galaxy(type, cluster, aliases) ==
    [type |-> type, uuid |-> GalaxyUuid(type), cluster |-> cluster,
     value |-> "value", aliases |-> aliases]
Galaxies ==
    {Galaxy("malware", 21, <<>>), Galaxy("branded-vulnerability", 23, <<"alias1", "alias2">>),
     Galaxy("branded-vulnerability", 24, <<>>), Galaxy("unknown-family", 25, <<>>)}

startswith_tlp(name) ==
    name \in {"tlp:white", "tlp:green", "tlp:amber", "tlp:red", "tlp:ex", "tlp:acc", "tlp:a:b"}
\* len(tag.split(':'))
split_parts(tag) == IF tag = "tlp:a:b" THEN 3 ELSE 2

\* Attribute records: ok = the stix2 constructor accepts the typed object
Attr(type, to_ids, ok, tags, gals) ==
    [type |-> type, to_ids |-> to_ids, ok |-> ok, Tag |-> tags, Galaxy |-> gals]
AttributeInputs ==
    {Attr("domain", t, TRUE, <<>>, <<>>) : t \in BOOLEAN}
    \cup {Attr("domain", TRUE, FALSE, <<>>, <<Galaxy("malware", 21, <<>>)>>)}
    \cup {Attr("domain", TRUE, TRUE, <<>>, <<Galaxy("malware", 21, <<>>)>>)}
    \cup {Attr("domain", FALSE, TRUE, tgs, <<>>) :
              tgs \in {<<"source:x", "tlp:white">>, <<"tlp:ex">>, <<"tlp:acc">>}}
    \cup {Attr("domain", TRUE, TRUE, <<"tlp:a:b">>, <<>>)}
    \cup {Attr("domain", FALSE, TRUE, <<>>, <<Galaxy("malware", 21, <<>>)>>)}
    \cup {Attr("domain", FALSE, TRUE, <<>>, <<Galaxy("branded-vulnerability", 24, <<>>)>>)}
    \cup {Attr("foo", TRUE, TRUE, <<>>, <<>>), Attr("link", FALSE, TRUE, <<>>, <<>>)}
EventTagInputs == {<<>>, <<"source:x", "tlp:white">>}

\* Object records: Attribute (object_relation, value, to_ids, Galaxy),
\* ObjectReference (referenced_uuid, relationship_type, name of the referenced
\* object); ok = the stix2 constructor accepts the typed object
OAttr(relation, value, to_ids, gals) ==
    [object_relation |-> relation, value |-> value, to_ids |-> to_ids, Galaxy |-> gals]
Ref(uuid, relationship_type, name) ==
    [referenced_uuid |-> uuid, relationship_type |-> relationship_type, name |-> name]
Obj(uuid, name, attributes, references, ok) ==
    [uuid |-> uuid, name |-> name, Attribute |-> attributes,
     ObjectReference |-> references, ok |-> ok]
\* a file (11), alone or including a pe (12) that includes two sections
\* (13, 14), two url objects (15, 16), a stix2-pattern object (its value a
\* string of two characters or of one) and one of an unmapped kind
ObjectInputs ==
    {Obj(11, "file", <<OAttr("filename", 1, FALSE, <<>>)>>, <<>>, TRUE),
     Obj(11, "file", <<OAttr("filename", 1, FALSE, <<>>)>>, <<Ref(12, "includes", "pe")>>, TRUE),
     Obj(11, "file", <<OAttr("filename", 1, TRUE, <<Galaxy("malware", 21, <<>>)>>)>>,
         <<Ref(12, "includes", "pe")>>, TRUE),
     Obj(12, "pe", <<OAttr("number-sections", 2, FALSE, <<>>)>>,
         <<Ref(13, "includes", "pe-section"), Ref(14, "includes", "pe-section")>>, TRUE),
     Obj(12, "pe", <<OAttr("number-sections", 2, TRUE, <<>>)>>,
         <<Ref(13, "includes", "pe-section"), Ref(14, "includes", "pe-section")>>, TRUE),
     Obj(13, "pe-section", <<OAttr("name", 1, FALSE, <<>>)>>, <<>>, TRUE),
     Obj(14, "pe-section", <<OAttr("name", 2, FALSE, <<>>)>>, <<>>, TRUE),
     Obj(14, "pe-section", <<OAttr("name", 2, TRUE, <<>>)>>, <<>>, TRUE),
     Obj(15, "url", <<OAttr("url", 1, FALSE, <<>>)>>,
         <<Ref(12, "related-to", "pe"), Ref(16, "related-to", "url")>>, TRUE),
     Obj(16, "url", <<OAttr("url", 1, FALSE, <<>>), OAttr("port", 2, TRUE, <<Galaxy("malware", 21, <<>>)>>)>>,
         <<>>, TRUE),
     Obj(16, "url", <<OAttr("url", 1, FALSE, <<>>), OAttr("port", 2, TRUE, <<Galaxy("malware", 21, <<>>)>>)>>,
         <<>>, FALSE),
     Obj(17, "stix2-pattern", <<OAttr("stix2-pattern", <<"x", "y">>, FALSE, <<>>)>>, <<>>, TRUE),
     Obj(17, "stix2-pattern", <<OAttr("stix2-pattern", <<"x">>, FALSE, <<>>)>>, <<>>, TRUE),
     Obj(18, "bar", <<OAttr("text", 1, FALSE, <<>>)>>, <<>>, TRUE)}

\* network-socket objects (19, 20); SocketExt tells whether the star import of
\* the mapping module binds the name SocketExt, which the file does not import
Socket(uuid, attributes, ok, bound) ==
    [SocketExt |-> bound] @@ Obj(uuid, "network-socket", attributes, <<>>, ok)
SocketInputs ==
    {Socket(19, <<OAttr("address-family", <<"AF_X">>, FALSE, <<>>)>>, TRUE, bound) :
        bound \in BOOLEAN}
    \cup {Socket(19, <<OAttr("address-family", <<"AF_X">>, FALSE, <<>>)>>, FALSE, TRUE),
          Socket(19, <<OAttr("state", <<"listening">>, FALSE, <<>>)>>, FALSE, TRUE),
          Socket(20, <<OAttr("ip-dst", <<"1.2.3.4">>, FALSE, <<>>)>>, FALSE, TRUE),
          Socket(20, <<OAttr("ip-dst", <<"1.2.3.4">>, FALSE, <<>>)>>, TRUE, TRUE),
          Socket(20, <<OAttr("address-family", <<"AF_INET">>, FALSE, <<>>)>>, TRUE, TRUE),
          Socket(20, <<OAttr("domain-family", <<"PF_X">>, FALSE, <<>>)>>, TRUE, TRUE),
          Socket(20, <<OAttr("address-family", <<"AF_X">>, FALSE, <<>>),
                       OAttr("domain-family", <<"PF_X">>, FALSE, <<>>),
                       OAttr("ip-dst", <<"1.2.3.4">>, FALSE, <<>>)>>, TRUE, TRUE)}

\* ------------------------------------------------------------------- state
VARIABLES
    orgs, galaxies, ids, custom_objects,          \* set in __init__
    misp_event, report_id, identity_id,           \* set in handler
    SDOs, object_refs, links, markings, relationships,
    objects_to_parse,
    pc, i,                                        \* position in handler
    stix_packages, messages, outputfile,          \* buildEvent
    nevents, nrecords, nrand,
    object_uuids,                                 \* uuids of the objects read so far
    tag_log,                                      \* results of handle_tags in this event
    observed_data_calls,                          \* the calls of ObservedData for Objects
    asn_observable, credential_observable,        \* objectsMapping[..]['observable']
    builder_call,                                 \* the last builder call and its result
    substituted,                                  \* (value, text) of the define_pattern calls
    ncalls

vars == <<orgs, galaxies, ids, custom_objects, misp_event, report_id, identity_id,
          SDOs, object_refs, links, markings, relationships, objects_to_parse,
          pc, i, stix_packages, messages, outputfile, nevents, nrecords,
          object_uuids, nrand, tag_log, observed_data_calls,
          asn_observable, credential_observable, builder_call, substituted, ncalls>>

\* the state of the StixBuilder object and of buildEvent
builder_state == <<orgs, galaxies, ids, custom_objects, misp_event, report_id, identity_id,
                   SDOs, object_refs, links, markings, relationships, objects_to_parse,
                   pc, i, stix_packages, messages, outputfile, nevents, nrecords,
                   object_uuids, nrand, tag_log, observed_data_calls>>
\* the mapping tables and the record of the builder calls
tables_state == <<asn_observable, credential_observable, builder_call, substituted, ncalls>>

\* the last status message printed, "none" before
status == IF messages = <<>> THEN "none" ELSE messages[Len(messages)]
\* the file "<filename>.out"
NoOutput == [written |-> FALSE, content |-> <<>>]

\* --------------------------------------------------------------- utilities
InSeq(x, sq) == \E k \in 1..Len(sq) : sq[k] = x
Put(f, k, v) == [x \in (DOMAIN f) \cup {k} |-> IF x = k THEN v ELSE f[x]]
InsertAt(sq, n, x) == SubSeq(sq, 1, n) \o <<x>> \o SubSeq(sq, n + 1, Len(sq))

\* a pattern is a sequence of tokens: brackets, AND, and comparison clauses
\* "<path> = '<value>'" (index: the section index in the path, or -1)
Clause(path, index, value) == [path |-> path, index |-> index, value |-> value]
Tok(t) == Clause(t, -1, 0)
\* ' AND '.join(patterns)
RECURSIVE join_AND(_)
join_AND(patterns) ==
    IF Len(patterns) <= 1 THEN patterns
    ELSE <<Head(patterns), Tok("AND")>> \o join_AND(Tail(patterns))

\* a STIX object; unused fields keep these values
NewObject ==
    [type |-> "none", uuid |-> NoUuid, source_ref |-> NoId, target_ref |-> NoId,
     relationship_type |-> "", pattern |-> <<>>, number_of_sections |-> -1,
     sections |-> -1, name |-> "",
     object_marking_refs |-> <<>>, object_refs |-> <<>>, cluster |-> NoUuid,
     external_references |-> <<>>, objects |-> <<>>,
     created_by_ref |-> NoId, to_ids |-> FALSE]
ObjId(o) == <<o.type, o.uuid>>

\* the fields of self that the methods below read and write
Self ==
    [galaxies |-> galaxies, ids |-> ids, custom_objects |-> custom_objects,
     SDOs |-> SDOs, object_refs |-> object_refs, links |-> links,
     markings |-> markings, relationships |-> relationships,
     objects_to_parse |-> objects_to_parse, identity_id |-> identity_id,
     nrand |-> nrand, tag_log |-> tag_log,
     observed_data_calls |-> observed_data_calls, exc |-> FALSE]

Commit(s) ==
    /\ galaxies' = s.galaxies
    /\ ids' = s.ids
    /\ custom_objects' = s.custom_objects
    /\ SDOs' = s.SDOs
    /\ object_refs' = s.object_refs
    /\ links' = s.links
    /\ markings' = s.markings
    /\ relationships' = s.relationships
    /\ objects_to_parse' = s.objects_to_parse
    /\ nrand' = s.nrand
    /\ tag_log' = s.tag_log
    /\ observed_data_calls' = s.observed_data_calls

Raise(s) == [s EXCEPT !.exc = TRUE]

\* ------------------------------------------------- misp2stix2_mapping data
\* tlp_markings: the four TLP tags and the uuid of their predefined marking
tlp_markings ==
    [t \in {"tlp:white", "tlp:green", "tlp:amber", "tlp:red"} |->
        CASE t = "tlp:white" -> 61 [] t = "tlp:green" -> 62
          [] t = "tlp:amber" -> 63 [] OTHER -> 64]

\* mispTypesMapping[type]['to_call']; a type without entry raises KeyError
mispTypesMapping ==
    [t \in {"domain", "link"} |->
        IF t = "link" THEN "handle_link" ELSE "handle_usual_type"]

\* mispTypesMapping[type]['pattern'](type, value): one clause in a bracket pair
attribute_pattern(attribute_type) == <<Tok("["), Clause(attribute_type, -1, 0), Tok("]")>>

\* relationshipsSpecifications[source_type][target_type]
relationshipsSpecifications(source_type, target_type) ==
    CASE source_type = "indicator" /\ target_type = "malware" -> "indicates"
      [] source_type = "indicator" /\ target_type = "tool" -> "indicates"
      [] source_type = "indicator" /\ target_type = "vulnerability" -> "indicates"
      [] OTHER -> "KeyError"

\* stix2 MarkingDefinition(**marking_definition) accepts the marking of a tag
MarkingAccepted(tag) == tag = "tlp:acc"

\* "x-misp-object-{}".format(attribute_type)
custom_type(attribute_type) ==
    CASE attribute_type = "domain" -> "x-misp-object-domain"
      [] attribute_type = "link" -> "x-misp-object-link"
      [] attribute_type = "foo" -> "x-misp-object-foo"
      [] attribute_type = "file" -> "x-misp-object-file"
      [] attribute_type = "url" -> "x-misp-object-url"
      [] attribute_type = "stix2-pattern" -> "x-misp-object-stix2-pattern"
      [] attribute_type = "network-socket" -> "x-misp-object-network-socket"
      [] OTHER -> "x-misp-object-bar"

\* ------------------------------------------------------------ StixBuilder
\* load_galaxy_mapping: family -> stix type (the second entry names the adder)
galaxies_mapping ==
    [t \in {"branded-vulnerability", "malware", "tool"} |->
        CASE t = "branded-vulnerability" -> "vulnerability"
          [] t = "malware" -> "malware"
          [] OTHER -> "tool"]

\* variant: the reference list is filled only for id-mapped objects
append_object_refs_if_mapped(s, stix_object, id_mapping) ==
    [s EXCEPT !.SDOs = Append(@, stix_object),
              !.object_refs = IF id_mapping THEN Append(@, ObjId(stix_object)) ELSE @,
              !.ids = IF id_mapping THEN Put(@, stix_object.uuid, stix_object.type) ELSE @]

append_object(s, stix_object, id_mapping) ==
    [s EXCEPT !.SDOs = Append(@, stix_object),
              !.object_refs = Append(@, ObjId(stix_object)),
              !.ids = IF id_mapping THEN Put(@, stix_object.uuid, stix_object.type) ELSE @]

\* generate_galaxy_args and add_attack_pattern .. add_tool: id from the
\* collection_uuid of the cluster
add_galaxy_sdo(s, galaxy) ==
    append_object(s, [NewObject EXCEPT !.type = galaxies_mapping[galaxy.type],
                                       !.uuid = galaxy.cluster,
                                       !.cluster = galaxy.cluster,
                                       !.created_by_ref = s.identity_id], TRUE)

\* mispTypesMapping['vulnerability']['vulnerability_args'](name)
vulnerability_args(name) == [source_name |-> "cve", external_id |-> name]

\* variant: the aliases are not read
add_vulnerability_from_galaxy_name_only(s, galaxy) ==
    append_object(s, [NewObject EXCEPT !.type = "vulnerability",
                                       !.uuid = galaxy.uuid,
                                       !.cluster = galaxy.cluster,
                                       !.external_references =
                                           <<vulnerability_args(galaxy.value)>>,
                                       !.created_by_ref = s.identity_id], TRUE)

\* id from the uuid of the galaxy; one external reference per alias, or one
\* for the name of the cluster
add_vulnerability_from_galaxy(s, galaxy) ==
    append_object(s, [NewObject EXCEPT !.type = "vulnerability",
                                       !.uuid = galaxy.uuid,
                                       !.cluster = galaxy.cluster,
                                       !.external_references =
                                           IF galaxy.aliases # <<>>
                                           THEN [k \in 1..Len(galaxy.aliases) |->
                                                    vulnerability_args(galaxy.aliases[k])]
                                           ELSE <<vulnerability_args(galaxy.value)>>,
                                       !.created_by_ref = s.identity_id], TRUE)

\* relationships['defined'][source_id].append(target) on a defaultdict(list)
defined_append(defined, source_id, target) ==
    IF \E k \in 1..Len(defined) : defined[k].source = source_id
    THEN [k \in 1..Len(defined) |->
            IF defined[k].source = source_id
            THEN [defined[k] EXCEPT !.targets = Append(@, target)]
            ELSE defined[k]]
    ELSE Append(defined, [source |-> source_id, targets |-> <<target>>])

parse_galaxy(s, galaxy, source_id) ==
    IF galaxy.type \notin DOMAIN galaxies_mapping
    THEN s
    ELSE LET stix_type == galaxies_mapping[galaxy.type]
             built == IF galaxy.type = "branded-vulnerability"
                      THEN add_vulnerability_from_galaxy(s, galaxy)
                      ELSE add_galaxy_sdo(s, galaxy)
             s1 == IF ~InSeq(galaxy.cluster, s.galaxies)
                   THEN [built EXCEPT !.galaxies = Append(@, galaxy.cluster)]
                   ELSE s
         IN [s1 EXCEPT !.relationships.defined =
                            defined_append(@, source_id, <<stix_type, galaxy.cluster>>)]

RECURSIVE parse_galaxies(_, _, _)
parse_galaxies(s, gals, source_id) ==
    IF gals = <<>> THEN s
    ELSE parse_galaxies(parse_galaxy(s, Head(gals), source_id), Tail(gals), source_id)

\* markings is a dict: tag -> marking object, in insertion order
marking_of(mks, tag) == (CHOOSE k \in 1..Len(mks) : mks[k].tag = tag)
has_marking(mks, tag) == \E k \in 1..Len(mks) : mks[k].tag = tag

\* variant: an accepted marking is not stored in the cache
create_marking_no_store(s, tag) ==
    IF tag \in DOMAIN tlp_markings
    THEN LET marking_definition ==
                 [NewObject EXCEPT !.type = "marking-definition", !.uuid = tlp_markings[tag]]
         IN [s |-> [s EXCEPT !.markings = Append(@, [tag |-> tag, marking |-> marking_definition])],
             id |-> ObjId(marking_definition)]
    ELSE LET s1 == [s EXCEPT !.nrand = @ + 1]
         IN IF split_parts(tag) # 2 THEN [s |-> Raise(s1), id |-> NoId]
            ELSE [s |-> s1,
                  id |-> IF MarkingAccepted(tag) THEN <<"marking-definition", Uuid4(s.nrand)>>
                         ELSE NoId]

\* returns the state and the marking id (NoId for None); the unpacking of
\* tag.split(':') raises ValueError unless the tag has two parts
create_marking(s, tag) ==
    IF tag \in DOMAIN tlp_markings
    THEN LET marking_definition ==
                 [NewObject EXCEPT !.type = "marking-definition", !.uuid = tlp_markings[tag]]
         IN [s |-> [s EXCEPT !.markings = Append(@, [tag |-> tag, marking |-> marking_definition])],
             id |-> ObjId(marking_definition)]
    ELSE LET marking_id == <<"marking-definition", Uuid4(s.nrand)>>
             s1 == [s EXCEPT !.nrand = @ + 1]
         IN IF split_parts(tag) # 2 THEN [s |-> Raise(s1), id |-> NoId]
            ELSE IF MarkingAccepted(tag)
            THEN [s |-> [s1 EXCEPT !.markings = Append(@,
                            [tag |-> tag,
                             marking |-> [NewObject EXCEPT !.type = "marking-definition",
                                                           !.uuid = marking_id[2]]])],
                  id |-> marking_id]
            ELSE [s |-> s1, id |-> NoId]

RECURSIVE handle_tags(_, _)
handle_tags(s, tags) ==
    IF tags = <<>> THEN [s |-> s, marking_ids |-> <<>>]
    ELSE LET tag == Head(tags)
             logged(r) == [r.s EXCEPT !.tag_log = Append(@, <<tag, r.id, r.s.exc>>)]
             result(r, rest) ==
                 IF r.s.exc THEN [s |-> logged(r), marking_ids |-> <<>>]
                 ELSE [s |-> rest.s,
                       marking_ids |-> IF r.id # NoId THEN <<r.id>> \o rest.marking_ids
                                       ELSE rest.marking_ids]
             resolved(r) == result(r, handle_tags(logged(r), Tail(tags)))
         IN resolved(IF has_marking(s.markings, tag)
                     THEN [s |-> s,
                           id |-> ObjId(s.markings[marking_of(s.markings, tag)].marking)]
                     ELSE create_marking(s, tag))

\* create_labels: the tags that become markings
create_labels_markings(attribute) == SelectSeq(attribute.Tag, startswith_tlp)

\* Custom(**custom_object_args) of a class declared by @CustomObject with a
\* list of properties: the constructor raises when an argument is not a
\* declared property or a required property has no argument
Custom(properties, required, custom_object_args) ==
    /\ custom_object_args \subseteq properties
    /\ required \subseteq custom_object_args

\* variant: the wrapper of an Attribute gets a random id
add_custom_random_id(s, attribute) ==
    LET custom_object_type == custom_type(attribute.type)
        markings_ == create_labels_markings(attribute)
        build(r) ==
            IF r.s.exc THEN r.s
            ELSE append_object([r.s EXCEPT !.custom_objects = @ \cup {custom_object_type}],
                               [NewObject EXCEPT !.type = custom_object_type,
                                                 !.uuid = Uuid4(s.nrand),
                                                 !.object_marking_refs = r.marking_ids,
                                                 !.to_ids = attribute.to_ids,
                                                 !.created_by_ref = s.identity_id], TRUE)
    IN build(IF markings_ # <<>> THEN handle_tags(s, markings_)
             ELSE [s |-> s, marking_ids |-> <<>>])

add_custom(s, attribute) ==
    LET custom_object_type == custom_type(attribute.type)
        markings_ == create_labels_markings(attribute)
        custom_object_args ==
            {"id", "x_misp_category", "created", "modified", "labels", "x_misp_value",
             "created_by_ref"}
            \cup (IF markings_ # <<>> THEN {"object_marking_refs"} ELSE {})
        properties ==
            {"id", "labels", "x_misp_value", "created", "modified", "created_by_ref",
             "object_marking_refs", "x_misp_comment", "x_misp_category"}
        required == {"id", "labels", "x_misp_value", "created", "modified", "created_by_ref"}
        registered(r) == [r.s EXCEPT !.custom_objects = @ \cup {custom_object_type}]
        build(r) ==
            IF r.s.exc THEN r.s
            ELSE IF ~Custom(properties, required, custom_object_args)
            THEN Raise(registered(r))
            ELSE append_object(registered(r),
                               [NewObject EXCEPT !.type = custom_object_type,
                                                 !.uuid = attribute.uuid,
                                                 !.object_marking_refs = r.marking_ids,
                                                 !.to_ids = attribute.to_ids,
                                                 !.created_by_ref = s.identity_id], TRUE)
    IN build(IF markings_ # <<>> THEN handle_tags(s, markings_)
             ELSE [s |-> s, marking_ids |-> <<>>])

add_indicator(s, attribute) ==
    LET indicator_id == <<"indicator", attribute.uuid>>
        markings_ == create_labels_markings(attribute)
        pattern == attribute_pattern(attribute.type)
        tagged(s1) == IF markings_ # <<>> THEN handle_tags(s1, markings_)
                      ELSE [s |-> s1, marking_ids |-> <<>>]
        build(r) ==
            IF r.s.exc \/ ~attribute.ok THEN Raise(r.s)
            ELSE append_object(r.s, [NewObject EXCEPT !.type = "indicator",
                                                      !.uuid = attribute.uuid,
                                                      !.pattern = pattern,
                                                      !.object_marking_refs = r.marking_ids,
                                                      !.to_ids = attribute.to_ids,
                                                      !.created_by_ref = s.identity_id], TRUE)
    IN build(tagged(parse_galaxies(s, attribute.Galaxy, indicator_id)))

add_observed_data(s, attribute) ==
    LET observed_data_id == <<"observed-data", attribute.uuid>>
        markings_ == create_labels_markings(attribute)
        tagged(s1) == IF markings_ # <<>> THEN handle_tags(s1, markings_)
                      ELSE [s |-> s1, marking_ids |-> <<>>]
        build(r) ==
            IF r.s.exc \/ ~attribute.ok THEN Raise(r.s)
            ELSE append_object(r.s, [NewObject EXCEPT !.type = "observed-data",
                                                      !.uuid = attribute.uuid,
                                                      !.object_marking_refs = r.marking_ids,
                                                      !.to_ids = attribute.to_ids,
                                                      !.created_by_ref = s.identity_id], TRUE)
    IN build(tagged(parse_galaxies(s, attribute.Galaxy, observed_data_id)))

\* variant: the two branches exchanged
handle_usual_type_swapped(s, attribute) ==
    LET except(r) == IF r.exc THEN add_custom([r EXCEPT !.exc = FALSE], attribute) ELSE r
    IN except(IF attribute.to_ids THEN add_observed_data(s, attribute)
              ELSE add_indicator(s, attribute))

handle_usual_type(s, attribute) ==
    LET except(r) == IF r.exc THEN add_custom([r EXCEPT !.exc = FALSE], attribute) ELSE r
    IN except(IF attribute.to_ids THEN add_indicator(s, attribute)
              ELSE add_observed_data(s, attribute))

handle_link(s, attribute) == [s EXCEPT !.links = Append(@, attribute)]

\* the attribute loop body of handler
dispatch_attribute(s, attribute) ==
    IF attribute.type \notin DOMAIN mispTypesMapping
    THEN add_custom(s, attribute)
    ELSE IF mispTypesMapping[attribute.type] = "handle_link"
         THEN handle_link(s, attribute)
         ELSE handle_usual_type(s, attribute)

add_all_markings(s) ==
    LET RECURSIVE loop(_, _)
        loop(st, k) == IF k > Len(s.markings) THEN st
                       ELSE loop(append_object(st, s.markings[k].marking, TRUE), k + 1)
    IN loop(s, 1)

Relationship(s, source, target, relation) ==
    [NewObject EXCEPT !.type = "relationship", !.uuid = Uuid4(s.nrand),
                      !.source_ref = source, !.target_ref = target,
                      !.relationship_type = relation]

\* variant: the sources that start with 'report' are not skipped
add_defined_relationships_with_report(s) ==
    LET defined == s.relationships.defined
        RECURSIVE targets_loop(_, _, _)
        targets_loop(st, source, targets) ==
            IF targets = <<>> THEN st
            ELSE LET target == Head(targets)
                     spec == relationshipsSpecifications(source[1], target[1])
                     relation == IF spec = "KeyError" THEN "has" ELSE spec
                     st1 == append_object(st, Relationship(st, source, target, relation), FALSE)
                 IN targets_loop([st1 EXCEPT !.nrand = @ + 1], source, Tail(targets))
        RECURSIVE sources_loop(_, _)
        sources_loop(st, k) ==
            IF k > Len(defined) THEN st
            ELSE sources_loop(targets_loop(st, defined[k].source, defined[k].targets), k + 1)
    IN sources_loop(s, 1)

\* first loop of add_all_relationships
add_defined_relationships(s) ==
    LET defined == s.relationships.defined
        RECURSIVE targets_loop(_, _, _)
        targets_loop(st, source, targets) ==
            IF targets = <<>> THEN st
            ELSE LET target == Head(targets)
                     spec == relationshipsSpecifications(source[1], target[1])
                     relation == IF spec = "KeyError" THEN "has" ELSE spec
                     st1 == append_object(st, Relationship(st, source, target, relation), FALSE)
                 IN targets_loop([st1 EXCEPT !.nrand = @ + 1], source, Tail(targets))
        RECURSIVE sources_loop(_, _)
        sources_loop(st, k) ==
            IF k > Len(defined) THEN st
            ELSE IF defined[k].source[1] = "report"
                 THEN sources_loop(st, k + 1)
                 ELSE sources_loop(targets_loop(st, defined[k].source, defined[k].targets), k + 1)
    IN sources_loop(s, 1)

\* variant: an unresolved endpoint ends the references of its source (break)
add_to_define_relationships_break(s) ==
    LET to_define == s.relationships.to_define
        RECURSIVE references_loop(_, _, _)
        references_loop(st, source_uuid, references) ==
            IF references = <<>> THEN st
            ELSE LET reference == Head(references)
                     target_uuid == reference.referenced_uuid
                 IN IF source_uuid \notin DOMAIN st.ids \/ target_uuid \notin DOMAIN st.ids
                    THEN st
                    ELSE LET source == <<st.ids[source_uuid], source_uuid>>
                             target == <<st.ids[target_uuid], target_uuid>>
                             st1 == append_object(st, Relationship(st, source, target,
                                                      reference.relationship_type), FALSE)
                         IN references_loop([st1 EXCEPT !.nrand = @ + 1], source_uuid,
                                            Tail(references))
        RECURSIVE sources_loop(_, _)
        sources_loop(st, k) ==
            IF k > Len(to_define) THEN st
            ELSE sources_loop(references_loop(st, to_define[k].source_uuid,
                                              to_define[k].references), k + 1)
    IN sources_loop(s, 1)

\* second loop of add_all_relationships
add_to_define_relationships(s) ==
    LET to_define == s.relationships.to_define
        RECURSIVE references_loop(_, _, _)
        references_loop(st, source_uuid, references) ==
            IF references = <<>> THEN st
            ELSE LET reference == Head(references)
                     target_uuid == reference.referenced_uuid
                 IN IF source_uuid \notin DOMAIN st.ids \/ target_uuid \notin DOMAIN st.ids
                    THEN references_loop(st, source_uuid, Tail(references))
                    ELSE LET source == <<st.ids[source_uuid], source_uuid>>
                             target == <<st.ids[target_uuid], target_uuid>>
                             st1 == append_object(st, Relationship(st, source, target,
                                                      reference.relationship_type), FALSE)
                         IN references_loop([st1 EXCEPT !.nrand = @ + 1], source_uuid,
                                            Tail(references))
        RECURSIVE sources_loop(_, _)
        sources_loop(st, k) ==
            IF k > Len(to_define) THEN st
            ELSE sources_loop(references_loop(st, to_define[k].source_uuid,
                                              to_define[k].references), k + 1)
    IN sources_loop(s, 1)

add_all_relationships(s) == add_to_define_relationships(add_defined_relationships(s))

\* eventReport: returns the state and the Report
eventReport(s, event, rid) ==
    LET s1 == IF s.object_refs = <<>> /\ s.links # <<>>
              THEN add_custom([s EXCEPT !.links = Tail(@)], Head(s.links))
              ELSE s
        markings_ == SelectSeq(event.Tag, startswith_tlp)
        r == IF markings_ # <<>> /\ ~s1.exc THEN handle_tags(s1, markings_)
             ELSE [s |-> s1, marking_ids |-> <<>>]
        s2 == add_all_relationships(add_all_markings(r.s))
    IN IF r.s.exc THEN [s |-> r.s, report |-> NewObject]
       ELSE
       [s |-> s2,
        report |-> [NewObject EXCEPT !.type = "report", !.uuid = rid[2],
                                     !.object_marking_refs = r.marking_ids,
                                     !.object_refs = s2.object_refs,
                                     !.created_by_ref = s.identity_id]]

\* ------------------------------------------------- patterns and observables
\* a string is the sequence of its pieces: single characters, and the two
\* texts below, which no other piece is a prefix of
APOSTROPHE == "##APOSTROPHE##"
QUOTE == "##QUOTE##"
StringValues == {<<"a">>, <<"a", "'">>, <<"a", APOSTROPHE>>, <<"\"", "b">>}

\* str.replace(old, new) for a one-character old
replace(string, old, new) ==
    [k \in 1..Len(string) |-> IF string[k] = old THEN new ELSE string[k]]

\* an Attribute of the object handed to a builder
BAttr(type, relation, value) ==
    [type |-> type, object_relation |-> relation, value |-> value, Galaxy |-> <<>>]
\* the lists of at most MaxAttributes attributes drawn from a set
AttributeLists(attributes) == UNION {[1..n -> attributes] : n \in 0..MaxAttributes}

\* mispTypesMapping[type]['pattern'](type, value): "[<type>:value = '<value>']"
pattern_of_type(attribute_type, attribute_value) ==
    <<Tok("["), Clause(attribute_type, -1, attribute_value), Tok("]")>>

define_pattern(attribute_type, attribute_value) ==
    LET value == replace(replace(attribute_value, "'", APOSTROPHE), "\"", QUOTE)
    IN IF attribute_type = "malware-sample"
       THEN pattern_of_type("filename|md5", value)
       ELSE pattern_of_type(attribute_type, value)

\* credentialObjectMapping
credentialObjectMapping ==
    [r \in {"username", "password"} |->
        IF r = "username" THEN "user_id" ELSE "credential"]
\* "x_misp_{}_{}".format(attribute['type'], relation), for the text attributes
x_misp_field(type, relation) ==
    CASE relation = "origin" -> "x_misp_text_origin"
      [] relation = "notification" -> "x_misp_text_notification"
      [] OTHER -> "x_misp_text_text"

\* objectsMapping['credential']['pattern'].format(stix_type, value) per attribute
resolve_credential_pattern(attributes) ==
    [k \in 1..Len(attributes) |->
        LET relation == attributes[k].object_relation
            stix_type == IF relation \in DOMAIN credentialObjectMapping
                         THEN credentialObjectMapping[relation]
                         ELSE x_misp_field(attributes[k].type, relation)
        IN Clause(stix_type, -1, attributes[k].value)]

\* str(n), the key of the n-th node of an observable
str(n) == <<"0", "1", "2", "3", "4", "5", "6", "7">>[n + 1]
\* an observable is a dict from keys to nodes, a node a dict from field names
\* to values; a reference field holds the list of the keys it names
NoDict == <<>>
Truthy(dict) == DOMAIN dict # {}
HasKey(dict, key) == key \in DOMAIN dict

\* define_address_type of the mapping module
define_address_type(address) ==
    IF \E k \in 1..Len(address) : address[k] = ":" THEN "ipv6-addr" ELSE "ipv4-addr"
\* defineProtocols: port -> protocol
defineProtocols ==
    [p \in {<<"80">>, <<"443">>} |-> IF p = <<"80">> THEN "http" ELSE "https"]

resolve_url_observable(attributes) ==
    LET RECURSIVE loop(_, _)
        loop(st, k) ==
            IF k > Len(attributes) THEN st
            ELSE LET attribute == attributes[k]
                 IN loop(IF attribute.type = "url"
                         THEN [st EXCEPT !.bound = TRUE,
                                         !.observable =
                                             Put(NoDict, "0", [type |-> "url",
                                                              value |-> attribute.value])]
                         ELSE [st EXCEPT !.url_args = Put(@, attribute.type, attribute.value)],
                         k + 1)
        with_domain(st) ==
            IF HasKey(st.url_args, "domain")
            THEN [st EXCEPT !.observable =
                     Put(@, "1", [type |-> "domain-name", value |-> st.url_args["domain"]])]
            ELSE st
        with_port(st) ==
            IF HasKey(st.url_args, "port")
            THEN LET port_value == st.url_args["port"]
                     port == [type |-> "network-traffic", dst_ref |-> <<"1">>,
                              protocols |-> <<"tcp">> \o
                                  (IF port_value \in DOMAIN defineProtocols
                                   THEN <<defineProtocols[port_value]>> ELSE <<>>),
                              dst_port |-> port_value]
                 IN [st EXCEPT !.observable =
                        IF HasKey(@, "1") THEN Put(@, "2", port) ELSE Put(@, "1", port)]
            ELSE st
        return(st) ==
            \* without an attribute of type url the name observable is unbound
            IF ~st.bound THEN [exc |-> TRUE, observable |-> NoDict]
            ELSE [exc |-> FALSE, observable |-> with_port(with_domain(st)).observable]
    IN return(loop([bound |-> FALSE, observable |-> NoDict, url_args |-> NoDict], 1))

\* ipPortObjectMapping, for the relations other than ip and domain
ipPortObjectMapping ==
    [r \in {"src-port", "dst-port"} |-> IF r = "src-port" THEN "src_port" ELSE "dst_port"]

ip_port_observable_to_return(ip_address, d_object, domain, s_object) ==
    LET first == IF Truthy(ip_address) THEN Put(NoDict, "0", ip_address) ELSE NoDict
        o_id1 == IF Truthy(ip_address) THEN 1 ELSE 0
        second == IF Truthy(d_object)
                  THEN Put(first, str(o_id1),
                           IF Truthy(ip_address) THEN Put(d_object, s_object, <<"0">>)
                           ELSE d_object)
                  ELSE first
        o_id2 == IF Truthy(d_object) THEN o_id1 + 1 ELSE o_id1
    IN IF Truthy(domain)
       THEN Put(second, str(o_id2),
                IF Truthy(ip_address) /\ ~Truthy(d_object) THEN Put(domain, s_object, <<"0">>)
                ELSE domain)
       ELSE second

resolve_ip_port_observable(attributes) ==
    LET RECURSIVE loop(_, _)
        loop(st, k) ==
            IF k > Len(attributes) THEN st
            ELSE LET relation == attributes[k].object_relation
                     attribute_value == attributes[k].value
                 IN loop(IF relation = "ip"
                         THEN [st EXCEPT !.ip_address =
                                 [type |-> define_address_type(attribute_value),
                                  value |-> attribute_value]]
                         ELSE IF relation = "domain"
                         THEN [st EXCEPT !.domain =
                                 [type |-> "domain-name", value |-> attribute_value]]
                         ELSE IF relation \in DOMAIN ipPortObjectMapping
                         THEN [st EXCEPT !.observable =
                                 Put(@, ipPortObjectMapping[relation], attribute_value)]
                         ELSE st,
                         k + 1)
        RECURSIVE protocols(_, _)
        protocols(observable, ports) ==
            IF ports = <<>> THEN observable
            ELSE LET port == Head(ports)
                 IN protocols(IF HasKey(observable, port)
                                 /\ observable[port] \in DOMAIN defineProtocols
                                 /\ ~InSeq(defineProtocols[observable[port]],
                                           observable["protocols"])
                              THEN Put(observable, "protocols",
                                       Append(observable["protocols"],
                                              defineProtocols[observable[port]]))
                              ELSE observable,
                              Tail(ports))
        return(st) ==
            IF HasKey(st.observable, "src_port") \/ HasKey(st.observable, "dst_port")
            THEN ip_port_observable_to_return(
                     st.ip_address, protocols(st.observable, <<"src_port", "dst_port">>),
                     st.domain, "dst_ref")
            ELSE ip_port_observable_to_return(
                     st.ip_address, NoDict, st.domain,
                     IF Truthy(st.domain) THEN "resolves_to_refs" ELSE "dst_ref")
    IN [exc |-> FALSE,
        observable |-> return(loop([observable |-> [type |-> "network-traffic",
                                                   protocols |-> <<"tcp">>],
                                    ip_address |-> NoDict, domain |-> NoDict], 1))]

\* processMapping
processMapping == [r \in {"pid", "name"} |-> r]

resolve_process_observable(attributes) ==
    LET RECURSIVE loop(_, _)
        loop(st, k) ==
            IF k > Len(attributes) THEN st
            ELSE LET relation == attributes[k].object_relation
                     value == attributes[k].value
                     str_n == str(st.n)
                 IN loop(IF relation = "parent-pid"
                         THEN [observable |-> Put(st.observable, str_n,
                                                  [type |-> "process", pid |-> value]),
                               current_process |-> Put(st.current_process, "parent_ref",
                                                       <<str_n>>),
                               n |-> st.n + 1]
                         ELSE IF relation = "child-pid"
                         THEN [observable |-> Put(st.observable, str_n,
                                                  [type |-> "process", pid |-> value]),
                               current_process |->
                                   Put(st.current_process, "child_refs",
                                       (IF HasKey(st.current_process, "child_refs")
                                        THEN st.current_process["child_refs"] ELSE <<>>)
                                       \o <<str_n>>),
                               n |-> st.n + 1]
                         ELSE IF relation = "image"
                         THEN [observable |-> Put(st.observable, str_n,
                                                  [type |-> "file", name |-> value]),
                               current_process |-> Put(st.current_process, "binary_ref",
                                                       <<str_n>>),
                               n |-> st.n + 1]
                         ELSE IF relation \in DOMAIN processMapping
                         THEN [st EXCEPT !.current_process =
                                   Put(@, processMapping[relation], value)]
                         ELSE st,
                         k + 1)
        return(st) == Put(st.observable, str(st.n), st.current_process)
    IN [exc |-> FALSE,
        observable |-> return(loop([observable |-> NoDict,
                                    current_process |-> [type |-> "process"], n |-> 0], 1))]

\* networkTrafficMapping, for the ports and the fields of the socket extension
networkTrafficMapping ==
    [r \in {"src-port", "dst-port", "address-family", "domain-family"} |->
        CASE r = "src-port" -> "src_port" [] r = "dst-port" -> "dst_port"
          [] r = "address-family" -> "address_family" [] OTHER -> "protocol_family"]

\* {attribute['object_relation']: attribute['value'] for attribute in attributes}
relations_dict(attributes) ==
    LET RECURSIVE loop(_, _)
        loop(dict, k) ==
            IF k > Len(attributes) THEN dict
            ELSE loop(Put(dict, attributes[k].object_relation, attributes[k].value), k + 1)
    IN loop(NoDict, 1)

\* returns n, network_object and observable
create_network_observable(attributes) ==
    LET side(st, feature) ==
            LET ip_feature == IF feature = "src" THEN "ip-src" ELSE "ip-dst"
                host_feature == IF feature = "src" THEN "hostname-src" ELSE "hostname-dst"
                with_host(t) ==
                    IF HasKey(attributes, host_feature)
                    THEN [t EXCEPT !.observable =
                                       Put(@, str(t.n), [type |-> "domain-name",
                                                         value |-> attributes[host_feature]]),
                                   !.refs = Append(@, str(t.n)),
                                   !.n = @ + 1]
                    ELSE t
                with_ip(t) ==
                    IF HasKey(attributes, ip_feature)
                    THEN [t EXCEPT !.observable =
                                       Put(@, str(t.n),
                                           [type |-> define_address_type(attributes[ip_feature]),
                                            value |-> attributes[ip_feature]]),
                                   !.refs = Append(@, str(t.n)),
                                   !.n = @ + 1]
                    ELSE t
                with_refs(t) ==
                    IF t.refs # <<>>
                    THEN [t EXCEPT !.network_object =
                             Put(@, IF Len(t.refs) = 1
                                    THEN (IF feature = "src" THEN "src_ref" ELSE "dst_ref")
                                    ELSE (IF feature = "src" THEN "src_refs" ELSE "dst_refs"),
                                 t.refs)]
                    ELSE t
            IN with_refs(with_ip(with_host([st EXCEPT !.refs = <<>>])))
        port(st, feature) ==
            IF HasKey(attributes, feature)
            THEN [st EXCEPT !.network_object =
                     Put(@, networkTrafficMapping[feature], attributes[feature])]
            ELSE st
    IN port(port(side(side([n |-> 0, network_object |-> [type |-> "network-traffic"],
                            observable |-> NoDict, refs |-> <<>>], "src"), "dst"),
                 "src-port"), "dst-port")

resolve_network_connection_observable(attributes_list) ==
    LET attributes == relations_dict(attributes_list)
        layers == <<"layer3-protocol", "layer4-protocol", "layer7-protocol">>
        present == SelectSeq(layers, LAMBDA layer : HasKey(attributes, layer))
        protocols == [k \in 1..Len(present) |-> attributes[present[k]]]
        return(r) ==
            Put(r.observable, str(r.n),
                Put(r.network_object, "protocols",
                    IF protocols # <<>> THEN protocols ELSE <<"tcp">>))
    IN [exc |-> FALSE, observable |-> return(create_network_observable(attributes))]

\* states and tmp_attributes
parse_network_socket_attributes(attributes) ==
    LET RECURSIVE loop(_, _)
        loop(st, k) ==
            IF k > Len(attributes) THEN st
            ELSE loop(IF attributes[k].object_relation = "state"
                      THEN [st EXCEPT !.states = Append(@, attributes[k].value)]
                      ELSE [st EXCEPT !.tmp_attributes =
                               Put(@, attributes[k].object_relation, attributes[k].value)],
                      k + 1)
    IN loop([states |-> <<>>, tmp_attributes |-> NoDict], 1)

\* "is_{}".format(state)
state_type(state) == IF state = <<"listening">> THEN "is_listening" ELSE "is_blocking"

resolve_network_socket_observable(attributes) ==
    LET RECURSIVE with_states(_, _)
        with_states(socket_extension, states) ==
            IF states = <<>> THEN socket_extension
            ELSE with_states(Put(socket_extension, state_type(Head(states)), TRUE),
                             Tail(states))
        RECURSIVE with_families(_, _, _)
        with_families(socket_extension, tmp_attributes, features) ==
            IF features = <<>> THEN socket_extension
            ELSE with_families(IF HasKey(tmp_attributes, Head(features))
                               THEN Put(socket_extension, networkTrafficMapping[Head(features)],
                                        tmp_attributes[Head(features)])
                               ELSE socket_extension,
                               tmp_attributes, Tail(features))
        extended(network_object, socket_extension) ==
            IF Truthy(socket_extension)
            THEN Put(network_object, "extensions", [socket_ext |-> socket_extension])
            ELSE network_object
        return(p, r) ==
            Put(r.observable, str(r.n),
                extended(Put(r.network_object, "protocols",
                             IF HasKey(p.tmp_attributes, "protocol")
                             THEN <<p.tmp_attributes["protocol"]>> ELSE <<"tcp">>),
                         with_states(with_families(NoDict, p.tmp_attributes,
                                                   <<"address-family", "domain-family">>),
                                     p.states)))
        parsed(p) == return(p, create_network_observable(p.tmp_attributes))
    IN parsed(parse_network_socket_attributes(attributes))

\* SocketExt._properties[feature].allowed of stix2
SocketExt_allowed(feature) ==
    IF feature = "address_family" THEN {<<"AF_UNSPEC">>, <<"AF_INET">>, <<"AF_INET6">>}
    ELSE {<<"PF_INET">>, <<"PF_INET6">>}

\* the socket extension of the first node of type network-traffic
socket_node(objects) ==
    CHOOSE key \in DOMAIN objects :
        /\ objects[key]["type"] = "network-traffic"
        /\ \A other \in DOMAIN objects :
              objects[other]["type"] = "network-traffic" => \E n \in 0..7 :
                  /\ str(n) = key
                  /\ \A j \in 0..7 : str(j) = other => n <= j

\* ObservedData(**args) raises InvalidValueError: a field of the socket
\* extension is out of its enumeration, or valid tells that another field is
\* rejected
InvalidValueError(objects, valid) ==
    \/ ~valid
    \/ \E key \in DOMAIN objects :
          /\ HasKey(objects[key], "extensions")
          /\ \E feature \in {"address_family", "protocol_family"} :
                LET extension == objects[key]["extensions"]["socket_ext"]
                IN /\ HasKey(extension, feature)
                   /\ extension[feature] \notin SocketExt_allowed(feature)

\* dict.pop(key)
Pop(dict, key) == [x \in (DOMAIN dict) \ {key} |-> dict[x]]

\* the objects of socket_args when ObservedData is called again; bound tells
\* whether the module has the name SocketExt, which the file does not import;
\* exc: KeyError without socket extension, NameError without the name
fix_enumeration_issues(name, objects, bound) ==
    IF name # "network-socket"
       \/ \A key \in DOMAIN objects : objects[key]["type"] # "network-traffic"
    THEN [exc |-> FALSE, objects |-> objects]
    ELSE LET n == socket_node(objects)
             address_family(extension) ==
                 IF ~HasKey(extension, "address_family")
                 THEN Put(extension, "address_family", <<"AF_UNSPEC">>)
                 ELSE IF extension["address_family"] \notin SocketExt_allowed("address_family")
                 THEN Put(Put(extension, "x_misp_text_address_family",
                              extension["address_family"]),
                          "address_family", <<"AF_UNSPEC">>)
                 ELSE extension
             protocol_family(extension) ==
                 IF HasKey(extension, "protocol_family")
                    /\ extension["protocol_family"] \notin SocketExt_allowed("protocol_family")
                 THEN Put(Pop(extension, "protocol_family"), "x_misp_text_domain_family",
                          extension["protocol_family"])
                 ELSE extension
             fixed(extension) ==
                 IF ~bound /\ (HasKey(extension, "address_family")
                               \/ HasKey(extension, "protocol_family"))
                 THEN [exc |-> TRUE, objects |-> objects]
                 ELSE [exc |-> FALSE,
                       objects |-> Put(objects, n,
                           Put(objects[n], "extensions",
                               [socket_ext |-> protocol_family(address_family(extension))]))]
         IN IF ~HasKey(objects[n], "extensions") THEN [exc |-> TRUE, objects |-> objects]
            ELSE fixed(objects[n]["extensions"]["socket_ext"])

\* asnObjectMapping
asnObjectMapping ==
    [r \in {"asn", "description", "subnet-announced"} |->
        CASE r = "asn" -> "number" [] r = "description" -> "name" [] OTHER -> "value"]
\* value.startswith("AS") and int(value[2:]), the integer shown by its digits
startswith_AS(value) == Len(value) >= 2 /\ value[1] = "A" /\ value[2] = "S"
int_after_AS(value) == SubSeq(value, 3, Len(value))

\* asn is the dict objectsMapping['asn']['observable'] itself: the function
\* returns the observable and the dict as the call leaves it
resolve_asn_observable(asn_dict, attributes) ==
    LET RECURSIVE loop(_, _)
        loop(st, k) ==
            IF k > Len(attributes) THEN st
            ELSE LET relation == attributes[k].object_relation
                     stix_type == IF relation \in DOMAIN asnObjectMapping
                                  THEN asnObjectMapping[relation]
                                  ELSE x_misp_field(attributes[k].type, relation)
                     attribute_value == attributes[k].value
                 IN loop(IF relation = "subnet-announced"
                         THEN [st EXCEPT !.observable =
                                 Put(@, str(st.object_num),
                                     [type |-> define_address_type(attribute_value),
                                      value |-> attribute_value]),
                               !.object_num = @ + 1]
                         ELSE [st EXCEPT !.asn =
                                 Put(@, stix_type,
                                     IF stix_type = "number" /\ startswith_AS(attribute_value)
                                     THEN int_after_AS(attribute_value)
                                     ELSE attribute_value)],
                         k + 1)
        return(st) ==
            [exc |-> FALSE, asn |-> st.asn,
             observable |->
                 [key \in DOMAIN st.observable \cup {str(st.object_num)} |->
                     IF key = str(st.object_num) THEN st.asn
                     ELSE Put(st.observable[key], "belongs_to_refs", <<str(st.object_num)>>)]]
    IN return(loop([asn |-> asn_dict, observable |-> NoDict, object_num |-> 0], 1))

\* user_account is the dict objectsMapping['credential']['observable'] itself
resolve_credential_observable(user_account_dict, attributes) ==
    LET RECURSIVE loop(_, _)
        loop(user_account, k) ==
            IF k > Len(attributes) THEN user_account
            ELSE LET relation == attributes[k].object_relation
                     stix_type == IF relation \in DOMAIN credentialObjectMapping
                                  THEN credentialObjectMapping[relation]
                                  ELSE x_misp_field(attributes[k].type, relation)
                 IN loop(Put(user_account, stix_type, attributes[k].value), k + 1)
        return(user_account) ==
            [exc |-> FALSE, user_account |-> user_account,
             observable |-> Put(NoDict, "0", user_account)]
    IN return(loop(user_account_dict, 1))

\* the record of a builder call
NoCall == [name |-> "none", attributes |-> <<>>, observable |-> <<>>,
           pattern |-> <<>>, exc |-> FALSE]
CredentialAttributes ==
    {BAttr("text", "username", v) : v \in StringValues}
    \cup {BAttr("text", "password", <<"a">>), BAttr("text", "origin", <<"a">>)}
UrlAttributes ==
    {BAttr("url", "url", <<"a">>), BAttr("domain", "domain", <<"a">>),
     BAttr("port", "port", <<"80">>)}
IpPortAttributes ==
    {BAttr("ip-dst", "ip", <<"1.2.3.4">>), BAttr("domain", "domain", <<"a">>),
     BAttr("port", "dst-port", <<"80">>), BAttr("text", "text", <<"a">>)}
ProcessAttributes ==
    {BAttr("text", "parent-pid", <<"1">>), BAttr("text", "child-pid", <<"2">>),
     BAttr("filename", "image", <<"a">>), BAttr("text", "pid", <<"3">>)}
NetworkAttributes ==
    {BAttr("hostname", "hostname-src", <<"a">>), BAttr("ip-src", "ip-src", <<"1.2.3.4">>),
     BAttr("ip-dst", "ip-dst", <<"1", ":", "2">>), BAttr("port", "dst-port", <<"80">>),
     BAttr("text", "layer4-protocol", <<"udp">>)}
AsnAttributes ==
    {BAttr("AS", "asn", <<"A", "S", "1">>), BAttr("text", "description", <<"a">>),
     BAttr("ip-src", "subnet-announced", <<"1.2.3.4">>)}

\* ------------------------------------------------------ composite objects
\* objectsMapping[name]['to_call']; a name without entry raises KeyError
objectsMapping ==
    [n \in {"file", "pe", "pe-section", "url", "stix2-pattern", "network-socket"} |->
        IF n \in {"pe", "pe-section"} THEN "populate_objects_to_parse"
        ELSE "handle_usual_object_name"]

\* peMapping['number-sections']
number_sections_field == "number_of_sections"

fetch_ids_flag(attributes) == \E k \in 1..Len(attributes) : attributes[k].to_ids

\* the parse_galaxies call that the builders make for each attribute
RECURSIVE parse_attributes_galaxies(_, _, _)
parse_attributes_galaxies(s, attributes, object_id) ==
    IF attributes = <<>> THEN s
    ELSE parse_attributes_galaxies(parse_galaxies(s, Head(attributes).Galaxy, object_id),
                                   Tail(attributes), object_id)

\* fetch_custom_values registers the galaxies under the id of the wrapper
add_object_custom(s, misp_object, to_ids) ==
    LET custom_object_type == custom_type(misp_object.name)
        custom_object_id == <<custom_object_type, misp_object.uuid>>
        s1 == parse_attributes_galaxies(s, misp_object.Attribute, custom_object_id)
        custom_object_args ==
            {"id", "x_misp_values", "created", "modified", "labels", "x_misp_category",
             "created_by_ref"}
        properties ==
            {"id", "labels", "x_misp_value", "created", "modified", "created_by_ref",
             "x_misp_comment", "x_misp_category"}
        required == {"id", "labels", "x_misp_value", "created", "modified", "created_by_ref"}
        s2 == [s1 EXCEPT !.custom_objects = @ \cup {custom_object_type}]
    IN IF ~Custom(properties, required, custom_object_args) THEN Raise(s2)
       ELSE append_object(s2, [NewObject EXCEPT !.type = custom_object_type,
                                                !.uuid = misp_object.uuid,
                                                !.name = misp_object.name,
                                                !.to_ids = to_ids,
                                                !.created_by_ref = s.identity_id], TRUE)

\* the clauses of the pattern builder of a typed object
object_clauses(name, attributes) ==
    [k \in 1..Len(attributes) |->
        Clause(attributes[k].object_relation, -1, attributes[k].value)]

\* resolve_file_pattern: the clauses of the attributes and of the two fixed paths
resolve_file_pattern(s, attributes, object_id) ==
    [s |-> parse_attributes_galaxies(s, attributes, object_id),
     patterns |-> object_clauses("file", attributes)
                  \o <<Clause("parent_directory_ref.path", -1, 0),
                       Clause("parent_directory_ref.path", -1, 0)>>]

\* the value of the first attribute of relation stix2-pattern, a string: the
\* list of its characters is what ' AND '.join iterates over; None without one
resolve_stix2_pattern(attributes) ==
    LET found == SelectSeq(attributes, LAMBDA a : a.object_relation = "stix2-pattern")
    IN IF found = <<>> THEN <<>>
       ELSE [k \in 1..Len(found[1].value) |-> Tok(found[1].value[k])]

\* getattr(self, self.objects_mapping[name]['pattern'])(attributes, indicator_id)
resolve_pattern(s, name, attributes, object_id) ==
    IF name = "file"
    THEN [none |-> FALSE] @@ resolve_file_pattern(s, attributes, object_id)
    ELSE IF name = "stix2-pattern"
         THEN [s |-> s, patterns |-> resolve_stix2_pattern(attributes),
               none |-> \A k \in 1..Len(attributes) :
                            attributes[k].object_relation # "stix2-pattern"]
         ELSE [s |-> parse_attributes_galaxies(s, attributes, object_id),
               patterns |-> object_clauses(name, attributes), none |-> FALSE]

\* pattern_arg = <<>> stands for None
add_object_indicator(s, misp_object, pattern_arg) ==
    LET indicator_id == <<"indicator", misp_object.uuid>>
        joined(b) ==
            [s |-> b.s, exc |-> b.none,
             pattern |-> <<Tok("[")>> \o join_AND(b.patterns) \o <<Tok("]")>>,
             name |-> misp_object.name]
        build(r) ==
            IF r.exc \/ ~misp_object.ok THEN Raise(r.s)
            ELSE append_object(r.s, [NewObject EXCEPT !.type = "indicator",
                                                      !.uuid = misp_object.uuid,
                                                      !.name = r.name,
                                                      !.pattern = r.pattern,
                                                      !.to_ids = TRUE,
                                                      !.created_by_ref = s.identity_id], TRUE)
    IN build(IF pattern_arg # <<>>
             THEN [s |-> s, exc |-> FALSE, pattern |-> pattern_arg,
                   name |-> "WindowsPEBinaryFile"]
             ELSE joined(resolve_pattern(s, misp_object.name, misp_object.Attribute,
                                         indicator_id)))

\* observable_arg: [given |-> FALSE] stands for None, else the extension
\* of the file observable
add_object_observable(s, misp_object, observable_arg) ==
    LET observed_data_id == <<"observed-data", misp_object.uuid>>
        name == IF observable_arg.given THEN "WindowsPEBinaryFile" ELSE misp_object.name
        \* the node graph is kept for the network-socket kind only
        observable_objects ==
            IF name = "network-socket"
            THEN resolve_network_socket_observable(misp_object.Attribute) ELSE NoDict
        bound == IF name = "network-socket" THEN misp_object.SocketExt ELSE FALSE
        called(st, objects) ==
            [st EXCEPT !.observed_data_calls =
                Append(@, [uuid |-> misp_object.uuid, objects |-> objects,
                           rejected |-> InvalidValueError(objects, misp_object.ok)])]
        construct(st, objects) ==
            IF InvalidValueError(objects, misp_object.ok) THEN Raise(called(st, objects))
            ELSE append_object(called(st, objects), [NewObject EXCEPT
                    !.type = "observed-data",
                    !.uuid = misp_object.uuid,
                    !.name = name,
                    !.objects = objects,
                    !.number_of_sections = observable_arg.number_of_sections,
                    !.sections = observable_arg.sections,
                    !.created_by_ref = s.identity_id], TRUE)
        fix(st, args) == IF args.exc THEN Raise(st) ELSE construct(st, args.objects)
        except(r) ==
            IF r.exc
            THEN fix([r EXCEPT !.exc = FALSE],
                     fix_enumeration_issues(name, observable_objects, bound))
            ELSE r
    IN except(construct(IF observable_arg.given THEN s
                        ELSE parse_attributes_galaxies(s, misp_object.Attribute,
                                                       observed_data_id),
                        observable_objects))
NoObservable == [given |-> FALSE, number_of_sections |-> -1, sections |-> -1]

is_pe_reference(reference) ==
    reference.relationship_type \in {"includes", "included-in"} /\ reference.name = "pe"

\* objects_to_parse[name][uuid] = to_ids, misp_object
hold(s, misp_object, to_ids) ==
    [s EXCEPT !.objects_to_parse =
        Append(@, [name |-> misp_object.name, uuid |-> misp_object.uuid,
                   to_ids |-> to_ids, object |-> misp_object])]

\* variant: the stix2-pattern kind follows the flag like the other kinds
handle_usual_object_name_flag_only(s, misp_object, to_ids) ==
    LET name == misp_object.name
    IN IF name = "file"
          /\ \E k \in 1..Len(misp_object.ObjectReference) :
                is_pe_reference(misp_object.ObjectReference[k])
       THEN hold(s, misp_object, to_ids)
       ELSE LET r == IF to_ids
                     THEN add_object_indicator(s, misp_object, <<>>)
                     ELSE add_object_observable(s, misp_object, NoObservable)
            IN IF r.exc THEN add_object_custom([r EXCEPT !.exc = FALSE], misp_object, to_ids)
               ELSE r

handle_usual_object_name(s, misp_object, to_ids) ==
    LET name == misp_object.name
    IN IF name = "file"
          /\ \E k \in 1..Len(misp_object.ObjectReference) :
                is_pe_reference(misp_object.ObjectReference[k])
       THEN hold(s, misp_object, to_ids)
       ELSE LET r == IF to_ids \/ name = "stix2-pattern"
                     THEN add_object_indicator(s, misp_object, <<>>)
                     ELSE add_object_observable(s, misp_object, NoObservable)
            IN IF r.exc THEN add_object_custom([r EXCEPT !.exc = FALSE], misp_object, to_ids)
               ELSE r

\* variant: the object is stored without its flag
populate_objects_to_parse_unflagged(s, misp_object, to_ids) == hold(s, misp_object, FALSE)

populate_objects_to_parse(s, misp_object, to_ids) == hold(s, misp_object, to_ids)

held(s, name, uuid) ==
    \E k \in 1..Len(s.objects_to_parse) :
        s.objects_to_parse[k].name = name /\ s.objects_to_parse[k].uuid = uuid
held_entry(s, name, uuid) ==
    s.objects_to_parse[CHOOSE k \in 1..Len(s.objects_to_parse) :
        s.objects_to_parse[k].name = name /\ s.objects_to_parse[k].uuid = uuid]

\* the value of the last attribute mapped to number_of_sections, -1 if none
declared_sections(pe_object) ==
    LET att == pe_object.Attribute
        ks == {k \in 1..Len(att) : att[k].object_relation = "number-sections"}
    IN IF ks = {} THEN -1
       ELSE att[CHOOSE k \in ks : \A j \in ks : j <= k].value

\* int(extension['number_of_sections']) raises when the field was never set
parse_pe_extensions_observable(pe_object, sections) ==
    LET declared == declared_sections(pe_object)
    IN IF declared = -1
       THEN [exc |-> TRUE, given |-> TRUE, number_of_sections |-> -1, sections |-> Len(sections)]
       ELSE [exc |-> FALSE, given |-> TRUE,
             number_of_sections |-> IF Len(sections) # declared THEN Len(sections)
                                    ELSE declared,
             sections |-> Len(sections)]

parse_pe_extensions_pattern(pe_object, sections) ==
    LET att == pe_object.Attribute
        pe_clauses ==
            [k \in 1..Len(att) |->
                Clause(IF att[k].object_relation = "number-sections"
                       THEN number_sections_field ELSE att[k].object_relation,
                       -1, att[k].value)]
        RECURSIVE section_clauses(_)
        section_clauses(n_section) ==
            IF n_section >= Len(sections) THEN <<>>
            ELSE LET satt == sections[n_section + 1].Attribute
                 IN [k \in 1..Len(satt) |->
                        Clause(satt[k].object_relation, n_section, satt[k].value)]
                    \o section_clauses(n_section + 1)
    IN pe_clauses \o section_clauses(0)

\* variant: the flags of the sections are left out of to_ids_list
resolve_file_without_section_flags(s, entry) ==
    LET to_ids_file == entry.to_ids
        file_object == entry.object
        file_id == <<"file", file_object.uuid>>
        refs == file_object.ObjectReference
        pe_uuid == refs[CHOOSE k \in 1..Len(refs) :
                        /\ is_pe_reference(refs[k])
                        /\ \A j \in 1..(k - 1) : ~is_pe_reference(refs[j])].referenced_uuid
    IN IF ~held(s, "pe", pe_uuid) THEN Raise(s)
       ELSE
       LET pe == held_entry(s, "pe", pe_uuid)
           pe_object == pe.object
           prefs == pe_object.ObjectReference
           section_refs == SelectSeq(prefs,
               LAMBDA reference : reference.name = "pe-section"
                                  /\ held(s, "pe-section", reference.referenced_uuid))
           section_entries == [k \in 1..Len(section_refs) |->
               held_entry(s, "pe-section", section_refs[k].referenced_uuid)]
           sections == [k \in 1..Len(section_entries) |-> section_entries[k].object]
           to_ids_list == <<to_ids_file, pe.to_ids>>
       IN IF InSeq(TRUE, to_ids_list)
          THEN LET r == resolve_file_pattern(s, file_object.Attribute, file_id)
                   patterns == r.patterns \o parse_pe_extensions_pattern(pe_object, sections)
               IN add_object_indicator(r.s, file_object,
                      <<Tok("[")>> \o join_AND(patterns) \o <<Tok("]")>>)
          ELSE LET s1 == parse_attributes_galaxies(s, file_object.Attribute, file_id)
                   extension == parse_pe_extensions_observable(pe_object, sections)
               IN IF extension.exc THEN Raise(s1)
                  ELSE add_object_observable(s1, file_object,
                          [given |-> TRUE,
                           number_of_sections |-> extension.number_of_sections,
                           sections |-> extension.sections])

\* the body of the loop of resolve_objects2parse for one held file
resolve_file(s, entry) ==
    LET to_ids_file == entry.to_ids
        file_object == entry.object
        file_id == <<"file", file_object.uuid>>
        refs == file_object.ObjectReference
        pe_uuid == refs[CHOOSE k \in 1..Len(refs) :
                        /\ is_pe_reference(refs[k])
                        /\ \A j \in 1..(k - 1) : ~is_pe_reference(refs[j])].referenced_uuid
    IN IF ~held(s, "pe", pe_uuid) THEN Raise(s)
       ELSE
       LET pe == held_entry(s, "pe", pe_uuid)
           pe_object == pe.object
           prefs == pe_object.ObjectReference
           section_refs == SelectSeq(prefs,
               LAMBDA reference : reference.name = "pe-section"
                                  /\ held(s, "pe-section", reference.referenced_uuid))
           section_entries == [k \in 1..Len(section_refs) |->
               held_entry(s, "pe-section", section_refs[k].referenced_uuid)]
           sections == [k \in 1..Len(section_entries) |-> section_entries[k].object]
           to_ids_list == <<to_ids_file, pe.to_ids>>
                          \o [k \in 1..Len(section_entries) |-> section_entries[k].to_ids]
       IN IF InSeq(TRUE, to_ids_list)
          THEN LET r == resolve_file_pattern(s, file_object.Attribute, file_id)
                   patterns == r.patterns \o parse_pe_extensions_pattern(pe_object, sections)
               IN add_object_indicator(r.s, file_object,
                      <<Tok("[")>> \o join_AND(patterns) \o <<Tok("]")>>)
          ELSE LET s1 == parse_attributes_galaxies(s, file_object.Attribute, file_id)
                   extension == parse_pe_extensions_observable(pe_object, sections)
               IN IF extension.exc THEN Raise(s1)
                  ELSE add_object_observable(s1, file_object,
                          [given |-> TRUE,
                           number_of_sections |-> extension.number_of_sections,
                           sections |-> extension.sections])

resolve_objects2parse(s) ==
    LET files == SelectSeq(s.objects_to_parse, LAMBDA e : e.name = "file")
        RECURSIVE loop(_, _)
        loop(st, k) ==
            IF k > Len(files) \/ st.exc THEN st
            ELSE loop(resolve_file(st, files[k]), k + 1)
    IN loop(s, 1)

\* the object loop body of handler
dispatch_object(s, misp_object) ==
    LET to_ids == fetch_ids_flag(misp_object.Attribute)
        r == IF misp_object.name \notin DOMAIN objectsMapping
             THEN add_object_custom(s, misp_object, to_ids)
             ELSE IF objectsMapping[misp_object.name] = "populate_objects_to_parse"
                  THEN populate_objects_to_parse(s, misp_object, to_ids)
                  ELSE handle_usual_object_name(s, misp_object, to_ids)
    IN IF r.exc \/ misp_object.ObjectReference = <<>> THEN r
       ELSE [r EXCEPT !.relationships.to_define =
                Append(@, [source_uuid |-> misp_object.uuid,
                           references |-> misp_object.ObjectReference])]

\* handler run by a new StixBuilder on one event, uuid4 drawing its values
\* from seed on: the exception flag and the returned list self.SDOs
handler(event, seed) ==
    LET rid == <<"report", event.uuid>>
        s0 == [galaxies |-> <<>>, ids |-> <<>>, custom_objects |-> {},
               SDOs |-> <<[NewObject EXCEPT !.type = "identity", !.uuid = event.Orgc]>>,
               object_refs |-> <<>>, links |-> <<>>, markings |-> <<>>,
               relationships |-> [defined |-> <<>>, to_define |-> <<>>],
               objects_to_parse |-> <<>>, identity_id |-> <<"identity", event.Orgc>>,
               nrand |-> seed, tag_log |-> <<>>, observed_data_calls |-> <<>>,
               exc |-> FALSE]
        RECURSIVE attributes_loop(_, _)
        attributes_loop(s, k) ==
            IF k > Len(event.Attribute) \/ s.exc THEN s
            ELSE attributes_loop(dispatch_attribute(s, event.Attribute[k]), k + 1)
        RECURSIVE objects_loop(_, _)
        objects_loop(s, k) ==
            IF k > Len(event.Object) \/ s.exc THEN s
            ELSE objects_loop(dispatch_object(s, event.Object[k]), k + 1)
        RECURSIVE galaxies_loop(_, _)
        galaxies_loop(s, k) ==
            IF k > Len(event.Galaxy) \/ s.exc THEN s
            ELSE galaxies_loop(parse_galaxy(s, event.Galaxy[k], rid), k + 1)
        s1 == attributes_loop(s0, 1)
        s2 == objects_loop(s1, 1)
        s3 == IF ~s2.exc /\ event.Object # <<>> /\ s2.objects_to_parse # <<>>
              THEN resolve_objects2parse(s2) ELSE s2
        s4 == galaxies_loop(s3, 1)
        r == IF s4.exc THEN [s |-> s4, report |-> NewObject]
             ELSE eventReport(s4, event, rid)
    IN [exc |-> r.s.exc,
        SDOs |-> IF r.s.exc THEN r.s.SDOs ELSE InsertAt(r.s.SDOs, 1, r.report)]

\* ------------------------------------------------------------------ actions
NoEvent == [uuid |-> NoUuid, Orgc |-> NoUuid, Tag |-> <<>>,
            Attribute |-> <<>>, Object |-> <<>>, Galaxy |-> <<>>]

Init ==
    /\ orgs = <<>> /\ galaxies = <<>> /\ ids = <<>> /\ custom_objects = {}
    /\ misp_event = NoEvent /\ report_id = NoId /\ identity_id = NoId
    /\ SDOs = <<>> /\ object_refs = <<>> /\ links = <<>> /\ markings = <<>>
    /\ relationships = [defined |-> <<>>, to_define |-> <<>>]
    /\ objects_to_parse = <<>>
    /\ pc = "idle" /\ i = 0
    /\ stix_packages = <<>> /\ messages = <<>> /\ outputfile = NoOutput
    /\ nevents = 0 /\ nrecords = 0 /\ object_uuids = {} /\ nrand = 0
    /\ tag_log = <<>> /\ observed_data_calls = <<>>
    /\ asn_observable = [type |-> "autonomous-system"]
    /\ credential_observable = [type |-> "user-account"]
    /\ builder_call = NoCall /\ substituted = {} /\ ncalls = 0

\* an exception that leaves handler ends buildEvent with the error message
Continue(s, next_pc) ==
    /\ Commit(s)
    /\ IF s.exc
       THEN messages' = Append(messages, "error") /\ pc' = "end"
       ELSE messages' = messages /\ pc' = next_pc
    /\ outputfile' = outputfile

\* variant: __set_identity does not record the organisation
StartEvent_org_not_recorded ==
    /\ pc = "idle" /\ status = "none" /\ nevents < MaxEvents
    /\ \E org_uuid \in {OrgUuid(k) : k \in 1..(Len(orgs) + 1)} :
        /\ misp_event' = [NoEvent EXCEPT !.uuid = EventUuid(nevents + 1),
                                         !.Orgc = org_uuid]
        /\ report_id' = <<"report", EventUuid(nevents + 1)>>
        /\ identity_id' = <<"identity", org_uuid>>
        /\ IF ~InSeq(org_uuid, orgs)
           THEN /\ SDOs' = <<[NewObject EXCEPT !.type = "identity", !.uuid = org_uuid]>>
                /\ orgs' = orgs
                /\ i' = 1
           ELSE /\ SDOs' = <<>>
                /\ orgs' = orgs
                /\ i' = 0
    /\ object_refs' = <<>> /\ links' = <<>> /\ markings' = <<>>
    /\ relationships' = [defined |-> <<>>, to_define |-> <<>>]
    /\ tag_log' = <<>>
    /\ pc' = "Attribute"
    /\ UNCHANGED <<galaxies, ids, custom_objects, objects_to_parse, stix_packages,
                   messages, outputfile, nevents, nrecords, object_uuids, nrand>>
    /\ UNCHANGED <<tables_state, observed_data_calls>>

\* handler, up to the call of __set_identity
StartEvent ==
    /\ pc = "idle" /\ status = "none" /\ nevents < MaxEvents
    /\ \E org_uuid \in {OrgUuid(k) : k \in 1..(Len(orgs) + 1)} :
        /\ misp_event' = [NoEvent EXCEPT !.uuid = EventUuid(nevents + 1),
                                         !.Orgc = org_uuid]
        /\ report_id' = <<"report", EventUuid(nevents + 1)>>
        /\ identity_id' = <<"identity", org_uuid>>
        /\ IF ~InSeq(org_uuid, orgs)
           THEN /\ SDOs' = <<[NewObject EXCEPT !.type = "identity", !.uuid = org_uuid]>>
                /\ orgs' = Append(orgs, org_uuid)
                /\ i' = 1
           ELSE /\ SDOs' = <<>>
                /\ orgs' = orgs
                /\ i' = 0
    /\ object_refs' = <<>> /\ links' = <<>> /\ markings' = <<>>
    /\ relationships' = [defined |-> <<>>, to_define |-> <<>>]
    /\ tag_log' = <<>>
    /\ pc' = "Attribute"
    /\ UNCHANGED <<galaxies, ids, custom_objects, objects_to_parse, stix_packages,
                   messages, outputfile, nevents, nrecords, object_uuids, nrand>>
    /\ UNCHANGED <<tables_state, observed_data_calls>>

HandleAttribute ==
    /\ pc = "Attribute" /\ nrecords < MaxRecords
    /\ \E a \in AttributeInputs :
        LET attribute == [uuid |-> AttributeUuid(nrecords + 1)] @@ a
        IN /\ Continue(dispatch_attribute(Self, attribute), "Attribute")
           /\ misp_event' = [misp_event EXCEPT !.Attribute = Append(@, attribute)]
    /\ nrecords' = nrecords + 1
    /\ UNCHANGED <<orgs, report_id, identity_id, i, stix_packages,
                   nevents, object_uuids>>
    /\ UNCHANGED tables_state

EndAttributes ==
    /\ pc = "Attribute"
    /\ pc' = "Object"
    /\ UNCHANGED <<orgs, galaxies, ids, custom_objects, misp_event, report_id,
                   identity_id, SDOs, object_refs, links, markings, relationships,
                   objects_to_parse, i, stix_packages, messages, outputfile, nevents,
                   nrecords, object_uuids, nrand, tag_log>>
    /\ UNCHANGED <<tables_state, observed_data_calls>>

\* the body of the object loop for one Object
HandleObjectOf(misp_object) ==
    LET s == IF misp_event.Object = <<>>
             THEN [Self EXCEPT !.objects_to_parse = <<>>] ELSE Self
    IN /\ Continue(dispatch_object(s, misp_object), "Object")
       /\ misp_event' = [misp_event EXCEPT !.Object = Append(@, misp_object)]
       /\ misp_object.uuid \notin object_uuids
       /\ object_uuids' = object_uuids \cup {misp_object.uuid}

HandleObject ==
    /\ pc = "Object" /\ Cardinality(object_uuids) < MaxObjects
    /\ \E misp_object \in ObjectInputs : HandleObjectOf(misp_object)
    /\ UNCHANGED <<orgs, report_id, identity_id, i, stix_packages, nevents,
                   nrecords>>
    /\ UNCHANGED tables_state

\* the same step for an Object of kind network-socket
HandleSocketObject ==
    /\ pc = "Object" /\ Cardinality(object_uuids) < MaxObjects
    /\ \E misp_object \in SocketInputs : HandleObjectOf(misp_object)
    /\ UNCHANGED <<orgs, report_id, identity_id, i, stix_packages, nevents,
                   nrecords>>
    /\ UNCHANGED tables_state

\* the end of the object loop: pass 2 when something is held
EndObjects ==
    /\ pc = "Object"
    /\ IF misp_event.Object # <<>> /\ objects_to_parse # <<>>
       THEN Continue(resolve_objects2parse(Self), "Galaxy")
       ELSE Continue(Self, "Galaxy")
    /\ UNCHANGED <<orgs, misp_event, report_id, identity_id, i, stix_packages,
                   nevents, nrecords, object_uuids>>
    /\ UNCHANGED tables_state

ParseEventGalaxy ==
    /\ pc = "Galaxy" /\ nrecords < MaxRecords
    /\ \E galaxy \in Galaxies :
        /\ Continue(parse_galaxy(Self, galaxy, report_id), "Galaxy")
        /\ misp_event' = [misp_event EXCEPT !.Galaxy = Append(@, galaxy)]
    /\ nrecords' = nrecords + 1
    /\ UNCHANGED <<orgs, report_id, identity_id, i, stix_packages,
                   nevents, object_uuids>>
    /\ UNCHANGED tables_state

\* eventReport, the insertion of the Report, and the return of handler
EventReport ==
    /\ pc = "Galaxy"
    /\ \E tags \in EventTagInputs :
        LET event == [misp_event EXCEPT !.Tag = tags]
            r == eventReport(Self, event, report_id)
            out == InsertAt(r.s.SDOs, i, r.report)
        IN /\ Continue(IF r.s.exc THEN r.s ELSE [r.s EXCEPT !.SDOs = out], "idle")
           /\ misp_event' = event
           /\ stix_packages' = IF r.s.exc THEN stix_packages ELSE stix_packages \o out
           /\ nevents' = IF r.s.exc THEN nevents ELSE nevents + 1
    /\ UNCHANGED <<orgs, report_id, identity_id, i, nrecords, object_uuids>>
    /\ UNCHANGED tables_state

\* variant: the file is written before the failure is noticed
WriteOutput_write_then_fail ==
    /\ pc = "idle" /\ status = "none" /\ nevents >= 1
    /\ \E writable \in BOOLEAN :
        /\ outputfile' = [written |-> TRUE, content |-> stix_packages]
        /\ messages' = Append(messages, IF writable THEN "success" ELSE "error")
    /\ pc' = "end"
    /\ UNCHANGED <<orgs, galaxies, ids, custom_objects, misp_event, report_id,
                   identity_id, SDOs, object_refs, links, markings, relationships,
                   objects_to_parse, i, stix_packages, nevents, nrecords,
                   object_uuids, nrand, tag_log>>
    /\ UNCHANGED <<tables_state, observed_data_calls>>

\* buildEvent after the last event: the output file and the success message,
\* or the error message when the file cannot be opened
WriteOutput ==
    /\ pc = "idle" /\ status = "none" /\ nevents >= 1
    /\ \E writable \in BOOLEAN :
        IF writable
        THEN /\ outputfile' = [written |-> TRUE, content |-> stix_packages]
             /\ messages' = Append(messages, "success")
        ELSE /\ outputfile' = outputfile
             /\ messages' = Append(messages, "error")
    /\ pc' = "end"
    /\ UNCHANGED <<orgs, galaxies, ids, custom_objects, misp_event, report_id,
                   identity_id, SDOs, object_refs, links, markings, relationships,
                   objects_to_parse, i, stix_packages, nevents, nrecords,
                   object_uuids, nrand, tag_log>>
    /\ UNCHANGED <<tables_state, observed_data_calls>>

\* ------------------------------------------------------------ builder calls
\* the return of a builder call that leaves the mapping tables alone
Return(name, attributes, observable, pattern, exc) ==
    /\ builder_call' = [name |-> name, attributes |-> attributes,
                        observable |-> observable, pattern |-> pattern, exc |-> exc]
    /\ ncalls' = ncalls + 1
    /\ UNCHANGED builder_state

DefinePattern ==
    /\ ncalls < MaxCalls
    /\ \E attribute_type \in {"domain", "malware-sample"}, attribute_value \in StringValues :
        LET pattern == define_pattern(attribute_type, attribute_value)
        IN /\ Return("define_pattern",
                     <<BAttr(attribute_type, attribute_type, attribute_value)>>,
                     <<>>, pattern, FALSE)
           /\ substituted' = substituted \cup {<<attribute_value, pattern[2].value>>}
    /\ UNCHANGED <<asn_observable, credential_observable>>

\* a call of a builder of observables that leaves the mapping tables alone
ReturnObservable(name, attributes, r) ==
    /\ Return(name, attributes, r.observable, <<>>, r.exc)
    /\ UNCHANGED <<asn_observable, credential_observable, substituted>>

ResolveUrlObservable ==
    /\ ncalls < MaxCalls
    /\ \E attributes \in AttributeLists(UrlAttributes) :
        ReturnObservable("resolve_url_observable", attributes,
                         resolve_url_observable(attributes))

ResolveIpPortObservable ==
    /\ ncalls < MaxCalls
    /\ \E attributes \in AttributeLists(IpPortAttributes) :
        ReturnObservable("resolve_ip_port_observable", attributes,
                         resolve_ip_port_observable(attributes))

ResolveProcessObservable ==
    /\ ncalls < MaxCalls
    /\ \E attributes \in AttributeLists(ProcessAttributes) :
        ReturnObservable("resolve_process_observable", attributes,
                         resolve_process_observable(attributes))

ResolveNetworkConnectionObservable ==
    /\ ncalls < MaxCalls
    /\ \E attributes \in AttributeLists(NetworkAttributes) :
        ReturnObservable("resolve_network_connection_observable", attributes,
                         resolve_network_connection_observable(attributes))

ResolveAsnObservable ==
    /\ ncalls < MaxCalls
    /\ \E attributes \in AttributeLists(AsnAttributes) :
        LET returned(r) ==
                /\ Return("resolve_asn_observable", attributes, r.observable, <<>>, r.exc)
                /\ asn_observable' = r.asn
        IN returned(resolve_asn_observable(asn_observable, attributes))
    /\ UNCHANGED <<credential_observable, substituted>>

ResolveCredentialObservable ==
    /\ ncalls < MaxCalls
    /\ \E attributes \in AttributeLists(CredentialAttributes) :
        LET returned(r) ==
                /\ Return("resolve_credential_observable", attributes, r.observable,
                          <<>>, r.exc)
                /\ credential_observable' = r.user_account
        IN returned(resolve_credential_observable(credential_observable, attributes))
    /\ UNCHANGED <<asn_observable, substituted>>

ResolveCredentialPattern ==
    /\ ncalls < MaxCalls
    /\ \E attributes \in AttributeLists(CredentialAttributes) :
        Return("resolve_credential_pattern", attributes, <<>>,
               resolve_credential_pattern(attributes), FALSE)
    /\ UNCHANGED <<asn_observable, credential_observable, substituted>>

Next ==
    \/ StartEvent \/ HandleAttribute \/ EndAttributes \/ HandleObject
    \/ HandleSocketObject
    \/ EndObjects \/ ParseEventGalaxy \/ EventReport \/ WriteOutput
    \/ DefinePattern \/ ResolveCredentialPattern
    \/ ResolveUrlObservable \/ ResolveIpPortObservable \/ ResolveProcessObservable
    \/ ResolveNetworkConnectionObservable \/ ResolveAsnObservable
    \/ ResolveCredentialObservable

Spec == Init /\ [][Next]_vars

\* events made of attributes, tags and galaxies only
NextAttributes ==
    \/ StartEvent \/ HandleAttribute \/ EndAttributes
    \/ EndObjects \/ ParseEventGalaxy \/ EventReport \/ WriteOutput
SpecAttributes == Init /\ [][NextAttributes]_vars

\* events made of objects only
NextObjects ==
    \/ StartEvent \/ EndAttributes \/ HandleObject
    \/ EndObjects \/ EventReport \/ WriteOutput
SpecObjects == Init /\ [][NextObjects]_vars

\* events made of network-socket objects only
NextSockets ==
    \/ StartEvent \/ EndAttributes \/ HandleSocketObject
    \/ EndObjects \/ EventReport \/ WriteOutput
SpecSockets == Init /\ [][NextSockets]_vars

\* the builders of patterns and observables, called on their own
NextBuilders ==
    \/ DefinePattern \/ ResolveCredentialPattern
    \/ ResolveUrlObservable \/ ResolveIpPortObservable \/ ResolveProcessObservable
    \/ ResolveNetworkConnectionObservable \/ ResolveAsnObservable
    \/ ResolveCredentialObservable
SpecBuilders == Init /\ [][NextBuilders]_vars

\* ------------------------------------------------------------- properties
\* handler has returned: SDOs is the output of the last event
Returned == nevents >= 1 /\ pc \in {"idle", "end"} /\ status # "error"
TheReport == SDOs[i + 1]
ProducedFor(uuid) == {n \in 1..Len(SDOs) : SDOs[n].uuid = uuid}
Edges == {n \in 1..Len(SDOs) : SDOs[n].type = "relationship"}
DefinedRefs ==
    {<<k, j>> \in (1..Len(relationships.defined)) \X (1..(MaxRecords + MaxObjects + 2)) :
        j <= Len(relationships.defined[k].targets)}
DefinedSource(p) == relationships.defined[p[1]].source
DefinedTarget(p) == relationships.defined[p[1]].targets[p[2]]
ToDefineRefs ==
    {<<k, j>> \in (1..Len(relationships.to_define)) \X (1..2) :
        j <= Len(relationships.to_define[k].references)}
ToDefineSource(p) == relationships.to_define[p[1]].source_uuid
ToDefineRef(p) == relationships.to_define[p[1]].references[p[2]]
\* the relationship objects built from an explicit reference p
EdgesOfRef(p) ==
    {n \in Edges : /\ SDOs[n].source_ref[2] = ToDefineSource(p)
                   /\ SDOs[n].target_ref[2] = ToDefineRef(p).referenced_uuid
                   /\ SDOs[n].relationship_type = ToDefineRef(p).relationship_type}
IsToDefineEdge(n) == \E p \in ToDefineRefs : n \in EdgesOfRef(p)

\* C1: within one Event, two references by Attributes or Objects to a cluster
\* of a known family yield exactly one target object of that cluster and
\* exactly two relationship edges pointing at it.
C1_OneTargetTwoEdges ==
    Returned =>
        \A p \in DefinedRefs :
            LET target == DefinedTarget(p)
                refs == {q \in DefinedRefs : /\ DefinedTarget(q) = target
                                             /\ DefinedSource(q)[1] # "report"}
            IN Cardinality(refs) = 2 =>
                /\ Cardinality({n \in 1..Len(SDOs) : /\ SDOs[n].type = target[1]
                                                     /\ SDOs[n].cluster = target[2]}) = 1
                /\ Cardinality({n \in Edges : SDOs[n].target_ref = target}) = 2

\* C2 as claimed: every tag resolved through handle_tags gets the same marking
\* id each time, and the output of the Event holds exactly one marking object
\* for it.
C2_SameIdOneMarking ==
    Returned =>
        \A k \in 1..Len(tag_log) :
            /\ \A j \in 1..Len(tag_log) :
                  tag_log[j][1] = tag_log[k][1] => tag_log[j][2] = tag_log[k][2]
            /\ Cardinality({n \in 1..Len(SDOs) : /\ SDOs[n].type = "marking-definition"
                                                 /\ ObjId(SDOs[n]) = tag_log[k][2]}) = 1

\* C2 amended: each resolution of a tag gives the same result: the same
\* marking id, with exactly one marking object in the output, when the tag is
\* a TLP token or its marking is accepted; no id, no cache entry and no marking
\* object when its marking is rejected.
MarkingRejected(tag) == tag \notin DOMAIN tlp_markings /\ ~MarkingAccepted(tag)
C2_SameResultPerTag ==
    Returned =>
        \A k \in 1..Len(tag_log) :
            LET tag == tag_log[k][1]
                id == tag_log[k][2]
            IN /\ \A j \in 1..Len(tag_log) : tag_log[j][1] = tag => tag_log[j][2] = id
               /\ IF MarkingRejected(tag)
                  THEN id = NoId /\ ~has_marking(markings, tag)
                  ELSE /\ id # NoId
                       /\ Cardinality({n \in 1..Len(SDOs) :
                              /\ SDOs[n].type = "marking-definition"
                              /\ ObjId(SDOs[n]) = id}) = 1
\* a tag with a random marking id was resolved twice in the Event
C2_Witness ==
    /\ Returned
    /\ \E j, k \in 1..Len(tag_log) :
        j < k /\ tag_log[j][1] = tag_log[k][1] /\ MarkingAccepted(tag_log[k][1])

\* C3: every id of the Report's object_refs is the id of an object appended
\* during the Event's translation, and no id occurs twice.
C3_ObjectRefsUnique ==
    Returned =>
        LET refs == TheReport.object_refs
        IN /\ \A k \in 1..Len(refs) : \E n \in 1..Len(SDOs) : ObjId(SDOs[n]) = refs[k]
           /\ \A j, k \in 1..Len(refs) : j # k => refs[j] # refs[k]

\* C4: the section count reported by a merged file / pe / pe-section output,
\* Indicator or ObservedData, equals the number of sections resolved in pass 2.
ReportedSections(o) ==
    IF o.type = "indicator"
    THEN o.pattern[CHOOSE k \in 1..Len(o.pattern) :
                       o.pattern[k].path = number_sections_field].value
    ELSE o.number_of_sections
ResolvedSections(o) ==
    IF o.type = "indicator"
    THEN Cardinality({o.pattern[k].index : k \in 1..Len(o.pattern)} \ {-1})
    ELSE o.sections
C4_SectionCount ==
    \A n \in 1..Len(SDOs) :
        SDOs[n].name = "WindowsPEBinaryFile" =>
            ReportedSections(SDOs[n]) = ResolvedSections(SDOs[n])

\* a non-empty pattern in exactly one bracket pair
WrappedInOneBracketPair(pattern) ==
    /\ Len(pattern) >= 3
    /\ pattern[1] = Tok("[") /\ pattern[Len(pattern)] = Tok("]")
    /\ \A k \in 2..(Len(pattern) - 1) : pattern[k].path \notin {"[", "]"}
FollowsFlag(o, to_ids) ==
    IF to_ids THEN o.type = "indicator" /\ WrappedInOneBracketPair(o.pattern)
    ELSE o.type = "observed-data"

\* C5 as claimed: the object produced for any Attribute is an ObservedData
\* when its to_ids flag is false and an Indicator with a bracketed pattern
\* when it is true.
C5_EveryAttributeFollowsFlag ==
    \A k \in 1..Len(misp_event.Attribute) :
        LET attribute == misp_event.Attribute[k]
        IN \A n \in ProducedFor(attribute.uuid) : FollowsFlag(SDOs[n], attribute.to_ids)

\* every marking tag of the list is a TLP token or has two parts
TagsResolvable(tags) ==
    \A k \in 1..Len(tags) :
        startswith_tlp(tags[k]) /\ tags[k] \notin DOMAIN tlp_markings =>
            split_parts(tags[k]) = 2

\* C5 amended: the claim holds for the Attributes routed to handle_usual_type
\* whose typed object is built without failure (the resolution of its marking
\* tags raises no error and the constructor accepts the object); each of them
\* has exactly one output object.
UsualAccepted(attribute) ==
    /\ attribute.type \in DOMAIN mispTypesMapping
    /\ mispTypesMapping[attribute.type] = "handle_usual_type"
    /\ TagsResolvable(attribute.Tag)
    /\ attribute.ok
C5_UsualAttributeFollowsFlag ==
    \A k \in 1..Len(misp_event.Attribute) :
        LET attribute == misp_event.Attribute[k]
        IN UsualAccepted(attribute) =>
            /\ Cardinality(ProducedFor(attribute.uuid)) = 1
            /\ \A n \in ProducedFor(attribute.uuid) : FollowsFlag(SDOs[n], attribute.to_ids)
\* an Indicator and an ObservedData were produced for two Attributes
C5_Witness ==
    \E j, k \in 1..Len(misp_event.Attribute) :
        LET a == misp_event.Attribute[j]
            b == misp_event.Attribute[k]
        IN /\ UsualAccepted(a) /\ a.to_ids /\ ProducedFor(a.uuid) # {}
           /\ UsualAccepted(b) /\ ~b.to_ids /\ ProducedFor(b.uuid) # {}

\* the objects that handle_usual_object_name receives / translates at once
TypedObject(o) ==
    /\ o.name \in DOMAIN objectsMapping
    /\ objectsMapping[o.name] = "handle_usual_object_name"
HeldFile(o) ==
    /\ o.name = "file"
    /\ \E k \in 1..Len(o.ObjectReference) : is_pe_reference(o.ObjectReference[k])

\* C6 as claimed: the output of an object translated by the typed object
\* handler is an Indicator iff one of its Attributes has the to_ids flag, and an
\* ObservedData when none has.
C6_IndicatorIffAnyFlag ==
    \A k \in 1..Len(misp_event.Object) :
        LET o == misp_event.Object[k]
            flag == \E a \in 1..Len(o.Attribute) : o.Attribute[a].to_ids
        IN TypedObject(o) =>
            \A n \in ProducedFor(o.uuid) :
                /\ SDOs[n].type = "indicator" <=> flag
                /\ ~flag => SDOs[n].type = "observed-data"

\* C6 amended: for an object that the typed object handler translates at once
\* (not a file held for pass 2) and whose typed object the constructor accepts,
\* the output is an Indicator iff one of its Attributes has the to_ids flag or
\* its kind is stix2-pattern, and an ObservedData otherwise.
C6_IndicatorIffFlagOrStix2Pattern ==
    \A k \in 1..Len(misp_event.Object) :
        LET o == misp_event.Object[k]
            flag == \E a \in 1..Len(o.Attribute) : o.Attribute[a].to_ids
        IN TypedObject(o) /\ ~HeldFile(o) /\ o.ok =>
            /\ Cardinality(ProducedFor(o.uuid)) = 1
            /\ \A n \in ProducedFor(o.uuid) :
                  SDOs[n].type = IF flag \/ o.name = "stix2-pattern" THEN "indicator"
                                 ELSE "observed-data"
\* an object whose flag comes from its second Attribute, a stix2-pattern
\* object without flag, and an object without flag were translated
C6_Witness ==
    \E j, k, l \in 1..Len(misp_event.Object) :
        LET a == misp_event.Object[j]
            b == misp_event.Object[k]
            c == misp_event.Object[l]
        IN /\ TypedObject(a) /\ a.ok /\ ~a.Attribute[1].to_ids /\ fetch_ids_flag(a.Attribute)
           /\ b.name = "stix2-pattern" /\ ~fetch_ids_flag(b.Attribute)
           /\ c.name = "url" /\ c.ok /\ ~fetch_ids_flag(c.Attribute)
           /\ ProducedFor(a.uuid) # {} /\ ProducedFor(b.uuid) # {} /\ ProducedFor(c.uuid) # {}

\* C7: a to-define edge is in the output only when both endpoints are in the
\* Identifier Registry; a reference with an endpoint that is not there is
\* dropped without error, and the other references still give their edge.
Resolved(p) ==
    /\ ToDefineSource(p) \in DOMAIN ids
    /\ ToDefineRef(p).referenced_uuid \in DOMAIN ids
C7_UnresolvedEdgesDropped ==
    Returned =>
        /\ \A n \in Edges : IsToDefineEdge(n) =>
              SDOs[n].source_ref[2] \in DOMAIN ids /\ SDOs[n].target_ref[2] \in DOMAIN ids
        /\ \A p \in ToDefineRefs :
              IF Resolved(p)
              THEN \E n \in EdgesOfRef(p) :
                      /\ SDOs[n].source_ref = <<ids[ToDefineSource(p)], ToDefineSource(p)>>
                      /\ SDOs[n].target_ref = <<ids[ToDefineRef(p).referenced_uuid],
                                                ToDefineRef(p).referenced_uuid>>
              ELSE EdgesOfRef(p) = {}
\* an object with a dropped reference followed by a resolved one
C7_Witness ==
    /\ Returned
    /\ \E p, q \in ToDefineRefs :
        /\ p[1] = q[1] /\ p[2] < q[2]
        /\ ~Resolved(p) /\ Resolved(q) /\ EdgesOfRef(q) # {}

\* C8: the Galaxy-seen set does not carry over from one Event to the next:
\* every known-family cluster referenced in an Event has its target object
\* built in the output of that Event, also when an earlier Event referenced it.
C8_GalaxiesResetPerEvent ==
    Returned =>
        \A p \in DefinedRefs :
            \E n \in 1..Len(SDOs) : SDOs[n].cluster = DefinedTarget(p)[2]

\* C9: the Identifier Registry does not carry over from one Event to the
\* next: a to-define edge with an endpoint produced only during an earlier
\* Event is dropped, so both endpoints of every to-define edge in the output
\* of an Event were produced during that Event.
C9_IdsResetPerEvent ==
    Returned =>
        \A n \in Edges : IsToDefineEdge(n) =>
            /\ ProducedFor(SDOs[n].source_ref[2]) # {}
            /\ ProducedFor(SDOs[n].target_ref[2]) # {}

\* the ids of a sequence of objects
IdsOf(objects) == [k \in 1..Len(objects) |-> ObjId(objects[k])]

\* C10 as claimed: object_refs is the sequence of the ids of all objects of
\* the Event's output except the Report.
C10_RefsAreAllButReport ==
    Returned =>
        TheReport.object_refs =
            IdsOf(SelectSeq(SDOs, LAMBDA o : o.type # "report"))

\* C10 amended: object_refs is, in creation order, the sequence of the ids of
\* all objects of the Event's output except the Report and the identity object
\* of the Event's organisation, which precedes the Report when this Event
\* emits it.
C10_RefsAreAllButReportAndIdentity ==
    Returned =>
        /\ TheReport.type = "report"
        /\ \A k \in 1..i : SDOs[k].type = "identity"
        /\ TheReport.object_refs = IdsOf(SubSeq(SDOs, i + 2, Len(SDOs)))
\* an Event that emits its identity, typed objects and a relationship
C10_Witness ==
    /\ Returned /\ i = 1
    /\ Edges # {}
    /\ \E n \in 1..Len(SDOs) : SDOs[n].type = "indicator"

\* the Reports of a sequence of objects
ReportsOf(objects) == SelectSeq(objects, LAMBDA o : o.type = "report")

\* C11: a run prints at most one status message. When an exception leaves the
\* translation of an Event, or the output cannot be written, the message is the
\* error message and no output is written for any Event; the success message
\* is printed only when every Event was translated and the output, which holds
\* the objects of all Events, was written.
C11_ErrorOrSuccess ==
    /\ Len(messages) <= 1
    /\ status = "error" => ~outputfile.written /\ pc = "end"
    /\ outputfile.written => status = "success"
    /\ status = "success" =>
          /\ outputfile.written /\ pc = "end"
          /\ outputfile.content = stix_packages
          /\ Len(ReportsOf(outputfile.content)) = nevents
          /\ misp_event.uuid = EventUuid(nevents)
          /\ \E k \in 1..Len(outputfile.content) :
                ObjId(outputfile.content[k]) = report_id
\* an Event was translated and the translation of the next one failed
C11_Witness ==
    /\ status = "error" /\ nevents >= 1 /\ stix_packages # <<>>
    /\ misp_event.uuid = EventUuid(nevents + 1)
    /\ ~outputfile.written

\* the custom wrappers in the output for a record of the given type and uuid
WrappersOf(type, uuid) ==
    {n \in 1..Len(SDOs) : ObjId(SDOs[n]) = <<custom_type(type), uuid>>}

\* C12: every Attribute and every Object read so far whose type has no entry
\* in the dispatch table has exactly one custom wrapper in the output (the
\* wrapper handler ran once for it and raised no error).
C12_DispatchTotal ==
    /\ \A k \in 1..Len(misp_event.Attribute) :
          LET attribute == misp_event.Attribute[k]
          IN attribute.type \notin DOMAIN mispTypesMapping =>
                Cardinality(WrappersOf(attribute.type, attribute.uuid)) = 1
    /\ \A k \in 1..Len(misp_event.Object) :
          LET misp_object == misp_event.Object[k]
          IN misp_object.name \notin DOMAIN objectsMapping =>
                Cardinality(WrappersOf(misp_object.name, misp_object.uuid)) = 1

\* the Attributes that handle_usual_type receives
Usual(attribute) ==
    /\ attribute.type \in DOMAIN mispTypesMapping
    /\ mispTypesMapping[attribute.type] = "handle_usual_type"

\* C13: every Attribute routed to handle_usual_type whose typed object fails
\* to be built, because the constructor rejects it or because the resolution
\* of its marking tags raises, has exactly one object in the output, its custom
\* wrapper (so the translation went on to the next record).
C13_FallbackToCustom ==
    \A k \in 1..Len(misp_event.Attribute) :
        LET attribute == misp_event.Attribute[k]
        IN Usual(attribute) /\ (~attribute.ok \/ ~TagsResolvable(attribute.Tag)) =>
            /\ Cardinality(WrappersOf(attribute.type, attribute.uuid)) = 1
            /\ ProducedFor(attribute.uuid) = WrappersOf(attribute.type, attribute.uuid)

\* C14: every resolution of a tag that is not a TLP token raises no error and
\* either yields a marking id or yields none and leaves the tag out of the
\* marking cache, so that the output gets no marking object for it.
C14_UnbuildableTagSkipped ==
    \A k \in 1..Len(tag_log) :
        LET tag == tag_log[k][1]
            id == tag_log[k][2]
            raised == tag_log[k][3]
        IN tag \notin DOMAIN tlp_markings =>
            /\ ~raised
            /\ id = NoId => ~has_marking(markings, tag)
            /\ Returned =>
                  Cardinality({n \in 1..Len(SDOs) : SDOs[n].type = "marking-definition"})
                      = Len(markings)

\* the galaxy of the input catalogue with the given cluster
GalaxyOf(cluster) == CHOOSE g \in Galaxies : g.cluster = cluster
VulnerabilitiesOf(cluster) ==
    {n \in 1..Len(SDOs) : SDOs[n].type = "vulnerability" /\ SDOs[n].cluster = cluster}
\* the references of the first Event of a run to a branded-vulnerability
\* cluster with aliases: the cluster was not seen before its first reference
AliasedRefs ==
    {p \in DefinedRefs : /\ misp_event.uuid = EventUuid(1)
                         /\ DefinedTarget(p)[1] = "vulnerability"
                         /\ GalaxyOf(DefinedTarget(p)[2]).aliases # <<>>}

\* C15 as claimed: a branded-vulnerability cluster with N >= 1 aliases that
\* was not seen before gives N Vulnerability objects.
C15_OneVulnerabilityPerAlias ==
    \A p \in AliasedRefs :
        LET cluster == DefinedTarget(p)[2]
        IN Cardinality(VulnerabilitiesOf(cluster)) = Len(GalaxyOf(cluster).aliases)

\* C15 amended: such a cluster gives a single Vulnerability object, which
\* carries N external references, one per alias in the order of the aliases.
C15_OneReferencePerAlias ==
    \A p \in AliasedRefs :
        LET cluster == DefinedTarget(p)[2]
            aliases == GalaxyOf(cluster).aliases
        IN /\ Cardinality(VulnerabilitiesOf(cluster)) = 1
           /\ \A n \in VulnerabilitiesOf(cluster) :
                 SDOs[n].external_references =
                     [k \in 1..Len(aliases) |-> vulnerability_args(aliases[k])]
\* a branded-vulnerability cluster with two aliases was translated
C15_Witness ==
    \E p \in AliasedRefs :
        /\ Len(GalaxyOf(DefinedTarget(p)[2]).aliases) = 2
        /\ VulnerabilitiesOf(DefinedTarget(p)[2]) # {}

\* the ids of the objects of an output
IdSet(objects) == {ObjId(objects[n]) : n \in 1..Len(objects)}
\* the objects whose id comes from uuid4: relationships and the markings of
\* the tags that are no TLP token
HasRandomId(o) ==
    \/ o.type = "relationship"
    \/ o.type = "marking-definition"
       /\ \A t \in DOMAIN tlp_markings : tlp_markings[t] # o.uuid
\* the source identifiers of an event: of the event, its organisation, its
\* Attributes and Objects, and of the galaxies and clusters of the catalogue
SourceUuids(event) ==
    {event.uuid, event.Orgc}
    \cup {event.Attribute[k].uuid : k \in 1..Len(event.Attribute)}
    \cup {event.Object[k].uuid : k \in 1..Len(event.Object)}
    \cup {g.uuid : g \in Galaxies} \cup {g.cluster : g \in Galaxies}

\* C16 as claimed: two independent translations of the Event just translated,
\* whose uuid4 values differ, give the same set of object ids.
C16_SameIdsInTwoRuns ==
    Returned =>
        IdSet(handler(misp_event, 0).SDOs) = IdSet(handler(misp_event, MaxRecords + MaxObjects + 2).SDOs)

\* C16 amended: in two independent translations of the Event, the objects
\* other than relationships and markings of non-TLP tags have the same ids,
\* each made of the kind of the object and a source identifier of the Event
\* (TLP markings have their predefined id); relationships and markings of
\* non-TLP tags are equal in number in both runs. The first Event of a run is
\* translated as by a new builder.
C16_SameSourceIdsInTwoRuns ==
    Returned =>
        LET run1 == handler(misp_event, 0)
            run2 == handler(misp_event, MaxRecords + MaxObjects + 2)
            Fixed(objects) == SelectSeq(objects, LAMBDA o : ~HasRandomId(o))
        IN /\ ~run1.exc /\ ~run2.exc
           /\ IdsOf(Fixed(run1.SDOs)) = IdsOf(Fixed(run2.SDOs))
           /\ Len(run1.SDOs) = Len(run2.SDOs)
           /\ \A n \in 1..Len(run1.SDOs) :
                 LET o == run1.SDOs[n]
                 IN ~HasRandomId(o) =>
                       \/ o.uuid \in SourceUuids(misp_event)
                       \/ o.type = "marking-definition"
           /\ misp_event.uuid = EventUuid(1) => run1.SDOs = SDOs
\* the output holds a typed object, a marking with a random id and a
\* relationship
C16_Witness ==
    /\ Returned
    /\ \E n \in 1..Len(SDOs) : SDOs[n].type \in {"indicator", "observed-data"}
    /\ \E n \in 1..Len(SDOs) : SDOs[n].type = "marking-definition" /\ HasRandomId(SDOs[n])
    /\ \E n \in 1..Len(SDOs) : SDOs[n].type = "relationship"

\* C17: in the objects returned for the Events of a run, no identity object
\* occurs twice; the Report of the first Event of an organisation directly
\* follows the identity object of that organisation, the Report of a later
\* Event of the organisation follows no identity object, and the Report and
\* the objects of every Event name the identity of the Event's organisation
\* as their creator.
C17_IdentityOncePerOrg ==
    LET reports == {n \in 1..Len(stix_packages) : stix_packages[n].type = "report"}
        First(n) == \A j \in reports :
                        j < n => stix_packages[j].created_by_ref # stix_packages[n].created_by_ref
    IN /\ \A m, n \in 1..Len(stix_packages) :
              /\ stix_packages[m].type = "identity"
              /\ ObjId(stix_packages[m]) = ObjId(stix_packages[n])
              => m = n
       /\ \A n \in reports :
              /\ stix_packages[n].created_by_ref[1] = "identity"
              /\ IF First(n)
                 THEN n > 1 /\ ObjId(stix_packages[n - 1]) = stix_packages[n].created_by_ref
                 ELSE n = 1 \/ stix_packages[n - 1].type # "identity"
       /\ Returned =>
              /\ TheReport.created_by_ref = <<"identity", misp_event.Orgc>>
              /\ \A n \in 1..Len(SDOs) :
                    SDOs[n].created_by_ref \in {NoId, TheReport.created_by_ref}
\* two Events of one organisation were translated, the second with objects
C17_Witness ==
    /\ Returned /\ i = 0 /\ Len(SDOs) >= 2
    /\ \E m, n \in 1..Len(stix_packages) :
          /\ m < n
          /\ stix_packages[m].type = "report" /\ stix_packages[n].type = "report"
          /\ stix_packages[m].created_by_ref = stix_packages[n].created_by_ref

\* the Object of the Event with the given uuid
HasObject(uuid, name) ==
    \E k \in 1..Len(misp_event.Object) :
        misp_event.Object[k].uuid = uuid /\ misp_event.Object[k].name = name
EventObject(uuid) ==
    misp_event.Object[CHOOSE k \in 1..Len(misp_event.Object) : misp_event.Object[k].uuid = uuid]
\* the pe object that a file object includes
PeOf(file_object) ==
    LET refs == file_object.ObjectReference
    IN EventObject(refs[CHOOSE k \in 1..Len(refs) :
                           /\ is_pe_reference(refs[k])
                           /\ \A j \in 1..(k - 1) : ~is_pe_reference(refs[j])].referenced_uuid)
\* the pe-section objects of the Event that a pe object references
SectionsOf(pe_object) ==
    {EventObject(pe_object.ObjectReference[k].referenced_uuid) :
        k \in {j \in 1..Len(pe_object.ObjectReference) :
                  /\ pe_object.ObjectReference[j].name = "pe-section"
                  /\ HasObject(pe_object.ObjectReference[j].referenced_uuid, "pe-section")}}
MergedFlag(file_object) ==
    \/ fetch_ids_flag(file_object.Attribute)
    \/ fetch_ids_flag(PeOf(file_object).Attribute)
    \/ \E section \in SectionsOf(PeOf(file_object)) : fetch_ids_flag(section.Attribute)

\* C18: when an Event is translated, every file object that includes a pe
\* object has one output object, the merged WindowsPEBinaryFile, which is an
\* Indicator if the to_ids flag of the file, of the pe or of one of the
\* resolved sections is true and an ObservedData otherwise.
C18_MergedFlagIsOr ==
    Returned =>
        \A k \in 1..Len(misp_event.Object) :
            LET file_object == misp_event.Object[k]
            IN HeldFile(file_object) =>
                /\ Cardinality(ProducedFor(file_object.uuid)) = 1
                /\ \A n \in ProducedFor(file_object.uuid) :
                      /\ SDOs[n].name = "WindowsPEBinaryFile"
                      /\ SDOs[n].type = IF MergedFlag(file_object) THEN "indicator"
                                        ELSE "observed-data"
\* a merged Indicator whose only true flag is the flag of a section
C18_Witness ==
    /\ Returned
    /\ \E k \in 1..Len(misp_event.Object) :
          LET file_object == misp_event.Object[k]
          IN /\ HeldFile(file_object)
             /\ ~fetch_ids_flag(file_object.Attribute)
             /\ ~fetch_ids_flag(PeOf(file_object).Attribute)
             /\ MergedFlag(file_object)
             /\ \E n \in ProducedFor(file_object.uuid) : SDOs[n].type = "indicator"

\* the holding area has exactly one entry for the key (name, uuid), with the flag
HeldWithFlag(name, uuid, to_ids) ==
    /\ Cardinality({k \in 1..Len(objects_to_parse) :
                        /\ objects_to_parse[k].name = name
                        /\ objects_to_parse[k].uuid = uuid}) = 1
    /\ \E k \in 1..Len(objects_to_parse) :
          /\ objects_to_parse[k].name = name
          /\ objects_to_parse[k].uuid = uuid
          /\ objects_to_parse[k].to_ids = to_ids

\* C19 as claimed: while the Objects of an Event are classified, every object
\* of kind file, pe or pe-section read so far is in the holding area under
\* (kind, uuid) with its to_ids flag and has no output object.
C19_EveryFileHeld ==
    pc = "Object" =>
        \A k \in 1..Len(misp_event.Object) :
            LET o == misp_event.Object[k]
            IN o.name \in {"file", "pe", "pe-section"} =>
                /\ HeldWithFlag(o.name, o.uuid, fetch_ids_flag(o.Attribute))
                /\ ProducedFor(o.uuid) = {}

\* C19 amended: the same for every object of kind pe or pe-section and every
\* file object that has a reference of type includes or included-in to a pe
\* object; a file object without such a reference is translated at once.
C19_PeGroupHeld ==
    pc = "Object" =>
        \A k \in 1..Len(misp_event.Object) :
            LET o == misp_event.Object[k]
            IN IF o.name \in {"pe", "pe-section"} \/ HeldFile(o)
               THEN /\ HeldWithFlag(o.name, o.uuid, fetch_ids_flag(o.Attribute))
                    /\ ProducedFor(o.uuid) = {}
               ELSE o.name = "file" /\ o.ok =>
                    /\ ~HeldWithFlag(o.name, o.uuid, fetch_ids_flag(o.Attribute))
                    /\ Cardinality(ProducedFor(o.uuid)) = 1
\* a file that includes a pe, and a pe-section with a true flag, are held
\* while another object already has its output
C19_Witness ==
    /\ pc = "Object"
    /\ \E j, k, l \in 1..Len(misp_event.Object) :
          /\ HeldFile(misp_event.Object[j])
          /\ misp_event.Object[k].name = "pe-section"
          /\ fetch_ids_flag(misp_event.Object[k].Attribute)
          /\ ProducedFor(misp_event.Object[l].uuid) # {}

\* the label of a defined edge: the entry of the table, "has" without entry
LabelOf(source, target) ==
    IF relationshipsSpecifications(source[1], target[1]) = "KeyError" THEN "has"
    ELSE relationshipsSpecifications(source[1], target[1])
EdgesBetween(source, target) ==
    {n \in Edges : SDOs[n].source_ref = source /\ SDOs[n].target_ref = target}

\* C20: in the output of an Event no relationship has the Report as source;
\* every recorded reference of another entity to a cluster object has its
\* relationship, labelled by the table of (source kind, target kind) or "has"
\* for a pair without entry, and the references of the Report have none.
C20_ReportNeverSource ==
    Returned =>
        /\ \A n \in Edges : SDOs[n].source_ref[1] # "report"
        /\ \A p \in DefinedRefs :
              IF DefinedSource(p)[1] = "report"
              THEN EdgesBetween(DefinedSource(p), DefinedTarget(p)) = {}
              ELSE /\ EdgesBetween(DefinedSource(p), DefinedTarget(p)) # {}
                   /\ \A n \in EdgesBetween(DefinedSource(p), DefinedTarget(p)) :
                         SDOs[n].relationship_type =
                             LabelOf(DefinedSource(p), DefinedTarget(p))
        /\ \A n \in Edges :
              IsToDefineEdge(n) \/ \E p \in DefinedRefs :
                  n \in EdgesBetween(DefinedSource(p), DefinedTarget(p))
\* an Event with a galaxy of its own, an edge labelled by the table and an
\* edge labelled "has"
C20_Witness ==
    /\ Returned
    /\ \E p \in DefinedRefs : DefinedSource(p)[1] = "report"
    /\ \E n \in Edges : SDOs[n].relationship_type = "has"
    /\ \E n \in Edges : SDOs[n].relationship_type = "indicates"

\* an exception left handler during the translation of the current Event
HandlerAborted ==
    pc = "end" /\ status = "error" /\ misp_event.uuid = EventUuid(nevents + 1)
\* the file Objects of the current Event that go to the holding area and whose
\* pe is not among the Objects of the Event
FilesWithoutPe ==
    {k \in 1..Len(misp_event.Object) :
        LET o == misp_event.Object[k]
        IN /\ o.name = "file"
           /\ \E j \in 1..Len(o.ObjectReference) : is_pe_reference(o.ObjectReference[j])
           /\ \A j \in 1..Len(o.ObjectReference) :
                 is_pe_reference(o.ObjectReference[j]) =>
                    ~HasObject(o.ObjectReference[j].referenced_uuid, "pe")}

\* C21: an Event made of file, pe and pe-section Objects only, one of them a
\* held file whose pe was omitted from the Event, is translated without an
\* exception leaving handler (pass 2 does not abort, the Report is produced).
C21_MissingPeDoesNotAbort ==
    /\ FilesWithoutPe # {}
    /\ \A k \in 1..Len(misp_event.Object) :
          misp_event.Object[k].name \in {"file", "pe", "pe-section"}
    => ~HandlerAborted

\* the comparison clauses of a pattern
ClausesOf(pattern) ==
    {k \in 1..Len(pattern) : pattern[k].path \notin {"[", "]", "AND"}}

\* C22: the clauses of the pattern returned by the last builder call hold no
\* quote and no apostrophe, and two define_pattern calls of the run on
\* different values never inserted the same text.
C22_QuotesSubstitutedReversibly ==
    /\ \A k \in ClausesOf(builder_call.pattern) :
          LET value == builder_call.pattern[k].value
          IN \A j \in 1..Len(value) : value[j] \notin {"'", "\""}
    /\ \A p \in substituted : \A q \in substituted : p[1] # q[1] => p[2] # q[2]

\* the builders of observables, and the type of the primary node of each
ObservableBuilders ==
    {"resolve_url_observable", "resolve_ip_port_observable", "resolve_process_observable",
     "resolve_network_connection_observable", "resolve_asn_observable",
     "resolve_credential_observable"}
PrimaryType(name) ==
    CASE name = "resolve_url_observable" -> "url"
      [] name = "resolve_process_observable" -> "process"
      [] name = "resolve_asn_observable" -> "autonomous-system"
      [] name = "resolve_credential_observable" -> "user-account"
      [] OTHER -> "network-traffic"
\* an observable was returned by the last builder call
ObservableReturned == builder_call.name \in ObservableBuilders /\ ~builder_call.exc
KeysOf(observable) == {str(n) : n \in 0..(Cardinality(DOMAIN observable) - 1)}
PrimaryKeys(name, observable) ==
    {key \in DOMAIN observable : observable[key]["type"] = PrimaryType(name)}

\* C23: the observable returned by the last builder call has the keys "0" ..
\* "n-1", and when it holds a node of the primary type of the object kind, the
\* node of the highest key is of that type (the other nodes have lower keys).
C23_KeysDensePrimaryLast ==
    ObservableReturned =>
        LET observable == builder_call.observable
            n == Cardinality(DOMAIN observable)
        IN /\ DOMAIN observable = KeysOf(observable)
           /\ PrimaryKeys(builder_call.name, observable) # {} =>
                 str(n - 1) \in PrimaryKeys(builder_call.name, observable)

\* the reference fields of a node
ReferenceFields ==
    {"dst_ref", "src_ref", "dst_refs", "src_refs", "resolves_to_refs", "belongs_to_refs",
     "parent_ref", "child_refs", "binary_ref", "parent_directory_ref", "content_ref",
     "body_raw_ref"}
\* the keys that the node of the given key refers to
ReferencesOf(observable, key) ==
    UNION {{observable[key][field][k] : k \in 1..Len(observable[key][field])} :
              field \in ReferenceFields \cap DOMAIN observable[key]}

\* C27: in the observable returned by the last builder call, every reference
\* of a node is the key of another node of the same observable.
C27_ReferencesResolve ==
    ObservableReturned =>
        \A key \in DOMAIN builder_call.observable :
            \A ref \in ReferencesOf(builder_call.observable, key) :
                ref \in DOMAIN builder_call.observable /\ ref # key

\* the fields that the attributes of the last builder call are mapped to
FieldsOfCall(mapping) ==
    {IF builder_call.attributes[k].object_relation \in DOMAIN mapping
     THEN mapping[builder_call.attributes[k].object_relation]
     ELSE x_misp_field(builder_call.attributes[k].type,
                       builder_call.attributes[k].object_relation) :
        k \in {j \in 1..Len(builder_call.attributes) :
                  builder_call.attributes[j].object_relation # "subnet-announced"}}
\* the fields of the primary node returned by the last builder call
PrimaryFields ==
    DOMAIN builder_call.observable[str(Cardinality(DOMAIN builder_call.observable) - 1)]

\* C28: the dicts of the mapping tables keep the fields they had when the
\* module was loaded, and the asn or user-account node returned by the last
\* builder call has no field but its type and the fields of the attributes
\* of that call.
C28_TablesUnchanged ==
    /\ DOMAIN asn_observable = {"type"}
    /\ DOMAIN credential_observable = {"type"}
    /\ builder_call.name = "resolve_asn_observable" =>
          PrimaryFields \subseteq {"type"} \cup FieldsOfCall(asnObjectMapping)
    /\ builder_call.name = "resolve_credential_observable" =>
          PrimaryFields \subseteq {"type"} \cup FieldsOfCall(credentialObjectMapping)

\* sub occurs in sq as a contiguous subsequence
Contains(sq, sub) ==
    \E start \in 0..(Len(sq) - Len(sub)) : \A k \in 1..Len(sub) : sq[start + k] = sub[k]

\* C29: the Indicator built for an Object of kind stix2-pattern, whatever the
\* flags of its attributes, has a pattern in which the characters of the value
\* of the stix2-pattern attribute follow each other without anything between.
C29_Stix2PatternUnaltered ==
    \A k \in 1..Len(misp_event.Object) :
        LET misp_object == misp_event.Object[k]
        IN misp_object.name = "stix2-pattern" =>
            \A n \in ProducedFor(misp_object.uuid) :
                /\ SDOs[n].type = "indicator"
                /\ Contains(SDOs[n].pattern,
                            [j \in 1..Len(misp_object.Attribute[1].value) |->
                                Tok(misp_object.Attribute[1].value[j])])

\* the calls of ObservedData made for the Object of the given uuid
CallsFor(uuid) == SelectSeq(observed_data_calls, LAMBDA c : c.uuid = uuid)
\* the socket extension of the objects of a call
ExtensionOf(call) == call.objects[socket_node(call.objects)]["extensions"]["socket_ext"]
HasExtension(call) == HasKey(call.objects[socket_node(call.objects)], "extensions")

\* C24: for every network-socket Object whose ObservedData was rejected,
\* ObservedData was called exactly twice; the second call has the address
\* family AF_UNSPEC and, when the first call had an address family out of the
\* enumeration, that value under x_misp_text_address_family; and when the
\* second call was rejected too, no observed-data of the Object is in the output.
C24_RejectedSocketRetriedOnce ==
    \A k \in 1..Len(misp_event.Object) :
        LET misp_object == misp_event.Object[k]
            calls == CallsFor(misp_object.uuid)
        IN misp_object.name = "network-socket" /\ calls # <<>> /\ calls[1].rejected =>
            /\ Len(calls) = 2
            /\ HasExtension(calls[2])
            /\ ExtensionOf(calls[2])["address_family"] = <<"AF_UNSPEC">>
            /\ HasExtension(calls[1]) /\ HasKey(ExtensionOf(calls[1]), "address_family")
               /\ ExtensionOf(calls[1])["address_family"]
                     \notin SocketExt_allowed("address_family") =>
                  /\ HasKey(ExtensionOf(calls[2]), "x_misp_text_address_family")
                  /\ ExtensionOf(calls[2])["x_misp_text_address_family"]
                        = ExtensionOf(calls[1])["address_family"]
            /\ calls[2].rejected =>
                  \A n \in ProducedFor(misp_object.uuid) : SDOs[n].type # "observed-data"

\* the ids of the objects in the output of the Event
OutputIds == {<<SDOs[n].type, SDOs[n].uuid>> : n \in 1..Len(SDOs)}

\* C25: the source reference of every relationship built from a recorded
\* (entity, cluster) reference is the id of an object in the output of the
\* Event, also for a merged file object and for an Attribute or Object wrapped
\* as a custom object after its galaxies were recorded.
C25_DefinedSourcesInOutput ==
    Returned =>
        \A n \in Edges : ~IsToDefineEdge(n) => SDOs[n].source_ref \in OutputIds

\* the objects built by parse_galaxy for the cluster of the given uuid
GalaxyObjects(cluster) ==
    {n \in 1..Len(SDOs) : SDOs[n].cluster = cluster /\ SDOs[n].type # "relationship"}

\* C26: the target reference of every relationship built from a recorded
\* (entity, cluster) reference is the id of the object that parse_galaxy built
\* for that cluster, for every known family.
C26_DefinedTargetsAreGalaxyObjects ==
    Returned =>
        \A n \in Edges : ~IsToDefineEdge(n) =>
            /\ GalaxyObjects(SDOs[n].target_ref[2]) # {}
            /\ \A g \in GalaxyObjects(SDOs[n].target_ref[2]) :
                  SDOs[n].target_ref = <<SDOs[g].type, SDOs[g].uuid>>

\* the file objects of the Event whose merged output object was built
MergedFiles ==
    {k \in 1..Len(misp_event.Object) :
        /\ HeldFile(misp_event.Object[k])
        /\ \E n \in ProducedFor(misp_event.Object[k].uuid) :
              SDOs[n].name = "WindowsPEBinaryFile"}
ConsumedPe(uuid) == \E k \in MergedFiles : PeOf(misp_event.Object[k]).uuid = uuid
ConsumedSection(uuid) ==
    \E k \in 1..Len(misp_event.Object) :
        LET pe_object == misp_event.Object[k]
        IN /\ pe_object.name = "pe" /\ ConsumedPe(pe_object.uuid)
           /\ \E j \in 1..Len(pe_object.ObjectReference) :
                 /\ pe_object.ObjectReference[j].name = "pe-section"
                 /\ pe_object.ObjectReference[j].referenced_uuid = uuid

\* C30: when the Report of an Event is built, every pe object of the Event
\* was merged into the output of a file object that references it, and every
\* pe-section object into the output of a file object through such a pe.
C30_HeldObjectsConsumed ==
    Returned =>
        \A k \in 1..Len(misp_event.Object) :
            LET o == misp_event.Object[k]
            IN /\ o.name = "pe" => ConsumedPe(o.uuid)
               /\ o.name = "pe-section" => ConsumedSection(o.uuid)

====
